---------------------------- MODULE Spec2Model ----------------------------
(***************************************************************************)
(* A model of the OpenDota MCP server's rate-limited API access layer:     *)
(* the sliding-window RateLimiter (opendota_mcp/classes.py), the shared    *)
(* HTTP client and fetch_api (opendota_mcp/client.py), the account cache   *)
(* (opendota_mcp/utils.py) and the tool entry points that use them.        *)
(*                                                                         *)
(* Scheduling is asyncio's: one event loop, tasks interleave only at the   *)
(* points where a coroutine really suspends (a held lock, a sleep, network *)
(* I/O).  Each action below is one run of a task from one suspension point *)
(* to the next.  Time is the wall clock read by datetime.now(), in         *)
(* seconds; it only moves in the Tick action.                              *)
(***************************************************************************)
EXTENDS Integers, Sequences, FiniteSets, TLC

\* ------------------------------------------------------------------ bounds
NTasks == 3         \* concurrently running tasks
MaxCalls == 4       \* top-level operations started in one run, over all tasks
NApiTasks == 2      \* tasks that call the API layer and the tools
MaxApiCalls == 4    \* operations of the API layer started in one run
MaxToolCalls == 1   \* tool calls made in one run
MaxResolveCalls == 1  \* resolver calls made in one run
TickStep == 30      \* seconds the clock moves in one Tick
MaxTime == 60       \* the clock moves freely up to here (and on, while a task sleeps)
requests_per_minute == 2    \* RateLimiter.requests_per_minute, the capacity:
                            \* RATE_LIMIT_RPM is 50, scaled down here

\* ------------------------------------------------------- program constants
Window == 60                \* timedelta(minutes=1), and the 60 of wait_time

Tasks == 1..NTasks
ApiTasks == 1..NApiTasks
NoTask == 0

VARIABLES
    clock,        \* datetime.now()
    requests,     \* RateLimiter.requests: the admission timestamps kept
    lockHolder,   \* RateLimiter.lock: the task holding it, or NoTask
    waiters,      \* RateLimiter.lock: tasks queued on it, first come first
    wakeAt,       \* per task: the clock value at which its asyncio.sleep ends
    admitted,     \* history: every admission, in the order of the appends
    lastCheck,    \* history: the ages (now - req_time) of the entries the latest
                  \* admission check looked at
    pc,           \* per task: where it is suspended
    ret,          \* per task: the callers' continuations, innermost first
    calls,        \* top-level operations started so far
    http_client,  \* client.http_client: the shared client, or NoClient
    nClients,     \* history: httpx.AsyncClient objects constructed so far (1..nClients)
    acloseCalls,  \* history: per constructed client, the aclose() calls made on it
    everCleaned,  \* history: cleanup_http_client has been called (shutdown began)
    PLAYER_CACHE, \* config.PLAYER_CACHE: lowercase nickname -> account id string
    cur,          \* per task: the operation it runs with its arguments and locals,
                  \* or how it ended
    REFERENCE_DATA, \* config.REFERENCE_DATA: category -> dict (a sequence of items)
    lifespan      \* server.app_lifespan: its phase ("startup" until the reference
                  \* data is loaded, then "serving", or "failed" when startup
                  \* raised) and what load_reference_data found of each file

rlVars == <<requests, lockHolder, waiters, wakeAt, admitted, lastCheck>>
taskVars == <<pc, ret, calls>>
clientVars == <<http_client, nClients, acloseCalls, everCleaned>>
refVars == <<REFERENCE_DATA, lifespan>>
apiVars == <<http_client, nClients, acloseCalls, everCleaned, PLAYER_CACHE, cur, refVars>>
vars == <<clock, requests, lockHolder, waiters, wakeAt, admitted, lastCheck,
          pc, ret, calls, http_client, nClients, acloseCalls, everCleaned,
          PLAYER_CACHE, cur, REFERENCE_DATA, lifespan>>

\* ------------------------------------------------------------------ values
\* Python values carry their type: isinstance() reads the tag.  A str is a
\* sequence of one-character strings.
PyNone == [t |-> "none"]
PyInt(n) == [t |-> "int", v |-> n]
PyStr(s) == [t |-> "str", v |-> s]
PyList(xs) == [t |-> "list", v |-> xs]
\* the JSON of a match: a dict carries the sequence of its items, whose keys
\* are strings; a float carries its hundredths
PyBool(b) == [t |-> "bool", v |-> b]
PyFloat(h) == [t |-> "float", hundredths |-> h]
PyDict(items) == [t |-> "dict", v |-> items]

UpperCase == <<"A", "B", "C", "D", "E", "F", "G", "H", "I", "J", "K", "L", "M",
               "N", "O", "P", "Q", "R", "S", "T", "U", "V", "W", "X", "Y", "Z">>
LowerCase == <<"a", "b", "c", "d", "e", "f", "g", "h", "i", "j", "k", "l", "m",
               "n", "o", "p", "q", "r", "s", "t", "u", "v", "w", "x", "y", "z">>

LowerChar(c) ==
    IF \E i \in DOMAIN UpperCase : UpperCase[i] = c
    THEN LowerCase[CHOOSE i \in DOMAIN UpperCase : UpperCase[i] = c]
    ELSE c

\* a lower() that leaves the case alone
StrLowerIdentity(s) == s

\* str.lower()
StrLower(s) == [i \in DOMAIN s |-> LowerChar(s[i])]

Digits == <<"0", "1", "2", "3", "4", "5", "6", "7", "8", "9">>

RECURSIVE DecStr(_)
\* str(n) of an int
DecStr(n) ==
    IF n < 0 THEN <<"-">> \o DecStr(0 - n)
    ELSE IF n < 10 THEN <<Digits[n + 1]>>
    ELSE DecStr(n \div 10) \o <<Digits[(n % 10) + 1]>>

\* ---------------------------------------------------------- configuration
OPENDOTA_BASE_URL == "https://api.opendota.com/api"

\* two of the six pre-seeded entries of PLAYER_CACHE
Name_xinobillie == <<"x", "i", "n", "o", "b", "i", "l", "l", "i", "e">>
Name_special_one == <<"s", "p", "e", "c", "i", "a", "l", " ", "o", "n", "e">>
InitialPlayerCache ==
    (Name_xinobillie :> DecStr(36872251)) @@ (Name_special_one :> DecStr(107409939))

\* REFERENCE_DATA as the module defines it: five empty dicts
RefCategories == {"heroes", "item_ids", "items", "hero_lore", "aghs_desc"}
InitialReferenceData == [c \in RefCategories |-> <<>>]

\* the files load_reference_data looks for, in the order of its loop
LoadOrder == <<"heroes", "item_ids", "hero_lore", "aghs_desc">>
RefFiles == {LoadOrder[i] : i \in DOMAIN LoadOrder}

\* app_lifespan before load_reference_data has looked at any file
Starting == [phase |-> "startup", files |-> [c \in RefFiles |-> "unread"]]

NoClient == 0
NoCall == [op |-> "none"]

\* ------------------------------------------------------------- RateLimiter

RECURSIVE SelectSeqFrom(_, _, _)
\* [x for x in s if Keep(x, now)], left to right
SelectSeqFrom(s, now, keepStrict) ==
    IF s = <<>> THEN <<>>
    ELSE LET rest == SelectSeqFrom(Tail(s), now, keepStrict)
             keep == IF keepStrict THEN now - Head(s) < Window
                                   ELSE now - Head(s) <= Window
         IN IF keep THEN <<Head(s)>> \o rest ELSE rest

\* a purge that keeps a request exactly one minute old
PurgeInclusive(reqs, now) == SelectSeqFrom(reqs, now, FALSE)

\* [req_time for req_time in self.requests if now - req_time < timedelta(minutes=1)]
Purge(reqs, now) == SelectSeqFrom(reqs, now, TRUE)

\* a release that wakes nobody
ReleaseLockNoWake ==
    lockHolder' = NoTask /\ waiters' = waiters

\* the lock as left by the exit of "async with self.lock": asyncio.Lock wakes
\* the first waiter, and no later arrival can take the lock before it
ReleaseLock ==
    IF waiters = <<>>
    THEN lockHolder' = NoTask /\ waiters' = waiters
    ELSE lockHolder' = Head(waiters) /\ waiters' = Tail(waiters)

\* self.requests.append(now), the end of the with block, the return to the caller
Admit(t, stk, kept, now, queued, slept) ==
    /\ requests' = Append(kept, now)
    /\ admitted' = Append(admitted, [task |-> t, time |-> now, queued |-> queued,
                                     slept |-> slept])
    /\ ReleaseLock
    /\ wakeAt' = [wakeAt EXCEPT ![t] = 0]
    /\ pc' = [pc EXCEPT ![t] = Head(stk)]
    /\ ret' = [ret EXCEPT ![t] = Tail(stk)]

\* now - req_time of every entry
Ages(reqs, now) == [k \in DOMAIN reqs |-> now - reqs[k]]

\* the time elapsed since the oldest request, taken for the time left
WaitTimeElapsed(now, oldest_request) == now - oldest_request

\* wait_time = 60 - (now - oldest_request).total_seconds()
WaitTime(now, oldest_request) == Window - (now - oldest_request)

\* an admission that skips the wait
AcquireBodyNoWait(t, stk, queued) ==
    LET now == clock
        purged == Purge(requests, now)
    IN /\ lastCheck' = Ages(purged, now)
       /\ Admit(t, stk, purged, now, queued, FALSE)

\* The body of acquire() from the moment the lock is held to its first
\* suspension: purge, check, and either admit or go to sleep holding the lock.
AcquireBody(t, stk, queued) ==
    LET now == clock
        purged == Purge(requests, now)
    IN /\ lastCheck' = Ages(purged, now)
       /\ IF Len(purged) >= requests_per_minute
          THEN IF purged = <<>>
               THEN \* self.requests[0] on an empty list: the IndexError
                    \* leaves the with block and the lock
                    /\ requests' = purged
                    /\ ReleaseLock
                    /\ UNCHANGED <<wakeAt, admitted>>
                    /\ pc' = [pc EXCEPT ![t] = "raised"]
                    /\ ret' = [ret EXCEPT ![t] = <<>>]
               ELSE LET oldest_request == purged[1]
                        wait_time == WaitTime(now, oldest_request)
                    IN IF wait_time > 0
                       THEN /\ requests' = purged
                            /\ wakeAt' = [wakeAt EXCEPT ![t] = now + wait_time]
                            /\ pc' = [pc EXCEPT ![t] =
                                         IF queued THEN "acq_sleep_q" ELSE "acq_sleep"]
                            /\ ret' = [ret EXCEPT ![t] = stk]
                            /\ lockHolder' = t
                            /\ UNCHANGED <<waiters, admitted>>
                       ELSE Admit(t, stk, purged, now, queued, FALSE)
          ELSE Admit(t, stk, purged, now, queued, FALSE)

\* an acquire() that runs the body whoever holds the lock
EnterAcquireNoLock(t, stk) == AcquireBody(t, stk, FALSE)

\* "await rate_limiter.acquire()" by a running task; stk holds the callers'
\* continuations, the place acquire() returns to first.  With the lock free
\* the body runs at once, otherwise the task queues.
EnterAcquire(t, stk) ==
    IF lockHolder = NoTask /\ waiters = <<>>
    THEN AcquireBody(t, stk, FALSE)
    ELSE /\ waiters' = Append(waiters, t)
         /\ pc' = [pc EXCEPT ![t] = "acq_wait"]
         /\ ret' = [ret EXCEPT ![t] = stk]
         /\ UNCHANGED <<requests, lockHolder, wakeAt, admitted, lastCheck>>

\* a queued task that runs the body while the lock is another caller's
LockGrantedBarging(t) ==
    /\ pc[t] = "acq_wait"
    /\ lockHolder # NoTask
    /\ UNCHANGED <<clock, calls, apiVars>>
    /\ AcquireBody(t, ret[t], TRUE)

\* a queued task is handed the lock and runs the body
LockGranted(t) ==
    /\ pc[t] = "acq_wait"
    /\ lockHolder = t
    /\ UNCHANGED <<clock, calls, apiVars>>
    /\ AcquireBody(t, ret[t], TRUE)

\* in asyncio.sleep, having queued for the lock first ("_q") or not
SleepLabels == {"acq_sleep", "acq_sleep_q"}

\* t is suspended inside acquire()
InAcquire(t) == pc[t] \in {"acq_wait"} \cup SleepLabels

\* the re-purge that forgets to drop anything
WakePurgeNone(reqs, now) == reqs

\* "Clean up again after waiting"
WakePurge(reqs, now) == Purge(reqs, now)

\* asyncio.sleep(wait_time) is over: re-read the clock, purge again, admit
Wake(t) ==
    /\ pc[t] \in SleepLabels
    /\ clock >= wakeAt[t]
    /\ UNCHANGED <<clock, calls, lastCheck, apiVars>>
    /\ Admit(t, ret[t], WakePurge(requests, clock), clock, pc[t] = "acq_sleep_q", TRUE)

Sleeping == {t \in Tasks : pc[t] \in SleepLabels /\ wakeAt[t] > clock}

\* time passes
Tick ==
    /\ clock < MaxTime \/ Sleeping # {}
    /\ clock' = clock + TickStep
    /\ UNCHANGED <<rlVars, taskVars, apiVars>>

\* ------------------------------------------- tasks calling acquire() directly

CallAcquire(t) ==
    /\ pc[t] = "idle"
    /\ calls < MaxCalls
    /\ calls' = calls + 1
    /\ EnterAcquire(t, <<"idle">> \o ret[t])
    /\ UNCHANGED <<clock, apiVars>>

\* the module globals as the imports leave them, and every task idle
Init ==
    /\ clock = 0
    /\ requests = <<>>
    /\ lockHolder = NoTask
    /\ waiters = <<>>
    /\ wakeAt = [t \in Tasks |-> 0]
    /\ admitted = <<>>
    /\ lastCheck = <<>>
    /\ pc = [t \in Tasks |-> "idle"]
    /\ ret = [t \in Tasks |-> <<>>]
    /\ calls = 0
    /\ http_client = NoClient
    /\ nClients = 0
    /\ acloseCalls = <<>>
    /\ everCleaned = FALSE
    /\ PLAYER_CACHE = InitialPlayerCache
    /\ REFERENCE_DATA = InitialReferenceData
    /\ lifespan = Starting
    /\ cur = [t \in Tasks |-> NoCall]

InitRL == Init

NextRL ==
    \/ \E t \in Tasks : CallAcquire(t)
    \/ \E t \in Tasks : LockGranted(t)
    \/ \E t \in Tasks : Wake(t)
    \/ Tick

SpecRL == InitRL /\ [][NextRL]_vars

\* asyncio runs every ready task, and the clock does not stop
FairRL ==
    /\ WF_vars(Tick)
    /\ \A t \in Tasks : WF_vars(LockGranted(t)) /\ WF_vars(Wake(t))

FairSpecRL == SpecRL /\ FairRL

\* ------------------------------------------------ cancellation in acquire()

\* a cancellation that leaves the lock as it is
CancelExitLockKept(t) == UNCHANGED <<lockHolder, waiters>>

\* the lock as CancelledError leaves it: raised at asyncio.sleep it leaves
\* the with block, whose exit releases the lock; raised in the lock's
\* acquire() it takes the caller out of the queue, and a caller that had
\* just been woken for the lock passes the wake-up on
CancelExit(t) ==
    IF lockHolder = t
    THEN ReleaseLock
    ELSE /\ lockHolder' = lockHolder
         /\ waiters' = SelectSeq(waiters, LAMBDA u : u # t)

\* task.cancel() on a task suspended in acquire(): CancelledError passes
\* through acquire(), which has no except clause, and ends the task
Cancel(t) ==
    /\ InAcquire(t)
    /\ CancelExit(t)
    /\ wakeAt' = [wakeAt EXCEPT ![t] = 0]
    /\ pc' = [pc EXCEPT ![t] = "cancelled"]
    /\ ret' = [ret EXCEPT ![t] = <<>>]
    /\ UNCHANGED <<clock, requests, admitted, lastCheck, calls, apiVars>>

NextCancel ==
    \/ \E t \in Tasks : CallAcquire(t)
    \/ \E t \in Tasks : LockGranted(t)
    \/ \E t \in Tasks : Wake(t)
    \/ \E t \in Tasks : Cancel(t)
    \/ Tick

SpecCancel == InitRL /\ [][NextCancel]_vars

\* the scheduling of FairSpecRL; nothing obliges anybody to cancel
FairSpecCancel == SpecCancel /\ FairRL

\* -------------------------------------------------- operations and results

\* the admissions task t got after the first base entries of the history
AcqCount(t, base) ==
    Cardinality({i \in DOMAIN admitted : i > base /\ admitted[i].task = t})

\* the frame of a top-level operation: its arguments, the requests it has
\* sent upstream, the locals of the call in progress
NewCall(o, a) ==
    [op |-> o, args |-> a, admBase |-> Len(admitted), sent |-> <<>>,
     client |-> NoClient, val |-> PyNone, req |-> PyNone, name |-> <<>>,
     fAdm |-> 0, fSent |-> 0, flog |-> <<>>, hit |-> FALSE, search_results |-> PyNone,
     loc |-> PyNone]

\* the text of an exception: which message it is and the values put into it
Msg(k, a) == [k |-> k, a |-> a]

Exc(cls, msg) == [cls |-> cls, msg |-> msg]

\* json.JSONDecodeError is a ValueError
IsValueError(e) == e.cls \in {"ValueError", "JSONDecodeError"}

\* a get_hero_matchups with a catch-all clause
CatchesAll(o, e) ==
    o \in {"get_player_win_loss", "get_hero_matchups"}

\* the except clauses of the entry points: get_player_win_loss has
\* and get_player_histograms have "except ValueError" and "except
\* Exception", get_hero_matchups only
\* "except ValueError", get_match_details "except Exception",
\* get_hero_id_by_name and a bare call none
Catches(o, e) ==
    CASE o \in {"get_player_win_loss", "get_player_histograms"} -> TRUE
      [] o = "get_hero_matchups" -> IsValueError(e)
      [] o = "get_match_details" -> TRUE
      [] OTHER -> FALSE

\* the operation of t is over: kind is "ok" (val is what it returns),
\* "error" (val is the {"error": ...} object it returns) or "raised" (val is
\* the exception that leaves it)
Finish(t, c, kind, val) ==
    /\ pc' = [pc EXCEPT ![t] = "done"]
    /\ ret' = [ret EXCEPT ![t] = <<>>]
    /\ cur' = [cur EXCEPT ![t] =
                 [op |-> c.op, args |-> c.args, kind |-> kind, val |-> val,
                  acq |-> AcqCount(t, c.admBase), sent |-> c.sent,
                  flog |-> c.flog, hit |-> c.hit, client |-> c.client,
                  search_results |-> c.search_results]]

\* an exception travels up to the entry point, whose except clause turns it
\* into an error object or lets it out
Raise(t, c, e) ==
    IF Catches(c.op, e)
    THEN Finish(t, c, "error", [error |-> e.msg])
    ELSE Finish(t, c, "raised", e)

\* a callee returns v to the continuation on top of the stack; the
\* operation is over when that is the task that awaited it
ReturnTo(t, stk, c, v) ==
    IF Head(stk) = "top_done"
    THEN Finish(t, c, "ok", v)
    ELSE /\ pc' = [pc EXCEPT ![t] = Head(stk)]
         /\ ret' = [ret EXCEPT ![t] = Tail(stk)]
         /\ cur' = [cur EXCEPT ![t] = [c EXCEPT !.val = v]]

Return(t, c, v) == ReturnTo(t, ret[t], c, v)

\* the task has the outcome of its operation and is free for the next one
Collect(t) ==
    /\ pc[t] = "done"
    /\ pc' = [pc EXCEPT ![t] = "idle"]
    /\ cur' = [cur EXCEPT ![t] = NoCall]
    /\ UNCHANGED <<clock, rlVars, ret, calls, clientVars, PLAYER_CACHE, refVars>>

\* what an awaited client.get(...) can end in
HttpOutcomes == {"ok", "status_error", "transport_error", "bad_json"}

HttpFailure(o) ==
    CASE o = "status_error" -> Exc("HTTPStatusError", Msg("status", <<>>))
      [] o = "transport_error" -> Exc("RequestError", Msg("transport", <<>>))
      [] OTHER -> Exc("JSONDecodeError", Msg("json", <<>>))

\* ------------------------------------------------------ shared HTTP client

\* a get_http_client that builds a client on every call
GetHttpClientAlwaysNew ==
    /\ http_client' = nClients + 1
    /\ nClients' = nClients + 1
    /\ acloseCalls' = Append(acloseCalls, 0)

\* get_http_client(): no await between the test and the assignment; the
\* client returned is http_client'
GetHttpClient ==
    IF http_client = NoClient
    THEN /\ http_client' = nClients + 1
         /\ nClients' = nClients + 1
         /\ acloseCalls' = Append(acloseCalls, 0)
    ELSE UNCHANGED <<http_client, nClients, acloseCalls>>

\* a task calls get_http_client() itself
CallGetHttpClient(t) ==
    /\ pc[t] = "idle"
    /\ calls < MaxApiCalls
    /\ calls' = calls + 1
    /\ GetHttpClient
    /\ Finish(t, [NewCall("get_http_client", PyNone) EXCEPT !.client = http_client'],
              "ok", PyInt(http_client'))
    /\ UNCHANGED <<clock, rlVars, everCleaned, PLAYER_CACHE, refVars>>

\* cleanup_http_client() up to "await http_client.aclose()"
CallCleanup(t) ==
    /\ pc[t] = "idle"
    /\ calls < MaxApiCalls
    /\ calls' = calls + 1
    /\ everCleaned' = TRUE
    /\ IF http_client # NoClient
       THEN /\ acloseCalls' = [acloseCalls EXCEPT ![http_client] = @ + 1]
            /\ pc' = [pc EXCEPT ![t] = "cleanup_aclose"]
            /\ cur' = [cur EXCEPT ![t] =
                         [NewCall("cleanup_http_client", PyNone) EXCEPT !.client = http_client]]
            /\ ret' = ret
       ELSE /\ Finish(t, NewCall("cleanup_http_client", PyNone), "ok", PyNone)
            /\ acloseCalls' = acloseCalls
    /\ UNCHANGED <<clock, rlVars, http_client, nClients, PLAYER_CACHE, refVars>>

\* aclose() is over: "http_client = None"
CleanupDone(t) ==
    /\ pc[t] = "cleanup_aclose"
    /\ http_client' = NoClient
    /\ Finish(t, cur[t], "ok", PyNone)
    /\ UNCHANGED <<clock, rlVars, calls, nClients, acloseCalls, everCleaned, PLAYER_CACHE, refVars>>

\* --------------------------------------------------------------- fetch_api

\* "if params is None: params = {}"
ParamsOrEmpty(params) == IF params = PyNone THEN [t |-> "dict", v |-> <<>>] ELSE params

\* an endpoint: which path it is and the id formatted into it
Endpoint(path, id) == [path |-> path, id |-> id]

\* the hero list as heroes.json and GET /heroes hold it
HeroesList ==
    << [id |-> 1, localized_name |-> <<"A", "n", "t", "i", "-", "M", "a", "g", "e">>],
       [id |-> 2, localized_name |-> <<"A", "x", "e">>],
       [id |-> 86, localized_name |-> <<"R", "u", "b", "i", "c", "k">>] >>

\* the match objects GET /matches/{id} may answer with: players with and
\* without a purchase log, a parsed and an unparsed match, an error body
PlayerA ==
    PyDict(<<[k |-> "account_id", v |-> PyInt(11)],
      [k |-> "player_slot", v |-> PyInt(0)],
      [k |-> "hero_id", v |-> PyInt(86)],
      [k |-> "kills", v |-> PyInt(3)],
      [k |-> "item_0", v |-> PyInt(1)],
      [k |-> "item_1", v |-> PyInt(96)],
      [k |-> "item_2", v |-> PyInt(999)],
      [k |-> "item_neutral", v |-> PyInt(44)],
      [k |-> "purchase_log", v |-> PyList(<<PyDict(<<[k |-> "time", v |-> PyInt(0 - 60)],
      [k |-> "key", v |-> PyStr(<<"t", "a", "n", "g", "o">>)]>>), PyDict(<<[k |-> "time", v |-> PyInt(900)],
      [k |-> "key", v |-> PyStr(<<"b", "f", "u", "r", "y">>)]>>), PyDict(<<[k |-> "time", v |-> PyInt(600)],
      [k |-> "key", v |-> PyStr(<<"b", "l", "i", "n", "k">>)]>>), PyDict(<<[k |-> "time", v |-> PyInt(0 - 5)],
      [k |-> "key", v |-> PyStr(<<"p", "o", "i", "n", "t", "_", "b", "o", "o", "s", "t", "e", "r">>)]>>), PyDict(<<[k |-> "time", v |-> PyInt(0)],
      [k |-> "key", v |-> PyStr(<<"p", "o", "i", "n", "t", "_", "b", "o", "o", "s", "t", "e", "r">>)]>>)>>)],
      [k |-> "damage_taken", v |-> PyDict(<<[k |-> "npc_dota_hero_axe", v |-> PyInt(5)],
      [k |-> "npc_dota_creep", v |-> PyInt(7)]>>)],
      [k |-> "benchmarks", v |-> PyDict(<<[k |-> "gold_per_min", v |-> PyDict(<<[k |-> "raw", v |-> PyInt(380)],
      [k |-> "pct", v |-> PyFloat(65)]>>)]>>)]>>)

PlayerB ==
    PyDict(<<[k |-> "player_slot", v |-> PyInt(128)],
      [k |-> "hero_id", v |-> PyInt(99)],
      [k |-> "purchase_log", v |-> PyList(<<PyDict(<<[k |-> "key", v |-> PyStr(<<"b", "f", "u", "r", "y">>)]>>), PyDict(<<[k |-> "time", v |-> PyInt(30)]>>), PyDict(<<[k |-> "time", v |-> PyNone],
      [k |-> "key", v |-> PyStr(<<"b", "l", "i", "n", "k">>)]>>), PyDict(<<[k |-> "time", v |-> PyInt(61)],
      [k |-> "key", v |-> PyStr(<<"b", "l", "i", "n", "k">>)]>>)>>)]>>)

PlayerC ==
    PyDict(<<[k |-> "account_id", v |-> PyNone],
      [k |-> "player_slot", v |-> PyInt(1)],
      [k |-> "hero_id", v |-> PyInt(2)],
      [k |-> "purchase_log", v |-> PyNone]>>)

Fight ==
    PyDict(<<[k |-> "start", v |-> PyInt(100)],
      [k |-> "end", v |-> PyInt(130)],
      [k |-> "deaths", v |-> PyInt(3)]>>)

ParsedMatch ==
    PyDict(<<[k |-> "match_id", v |-> PyInt(7)],
      [k |-> "duration", v |-> PyInt(1800)],
      [k |-> "radiant_win", v |-> PyBool(TRUE)],
      [k |-> "players", v |-> PyList(<<PlayerA, PlayerB>>)],
      [k |-> "teamfights", v |-> PyList(<<Fight>>)],
      [k |-> "radiant_gold_adv", v |-> PyList(<<PyInt(0), PyInt(200)>>)],
      [k |-> "all_word_counts", v |-> PyDict(<<[k |-> "gg", v |-> PyInt(2)]>>)],
      [k |-> "patch", v |-> PyNone]>>)

ParsedOne ==
    PyDict(<<[k |-> "match_id", v |-> PyInt(10)],
      [k |-> "players", v |-> PyList(<<PlayerB>>)],
      [k |-> "objectives", v |-> PyList(<<>>)]>>)

UnparsedMatch ==
    PyDict(<<[k |-> "match_id", v |-> PyInt(8)],
      [k |-> "duration", v |-> PyInt(125)],
      [k |-> "radiant_win", v |-> PyBool(FALSE)],
      [k |-> "players", v |-> PyList(<<PlayerA, PlayerB>>)]>>)

UnparsedNull ==
    PyDict(<<[k |-> "match_id", v |-> PyInt(9)],
      [k |-> "duration", v |-> PyInt(59)],
      [k |-> "players", v |-> PyList(<<PlayerC>>)]>>)

ParsedNoPlayers ==
    PyDict(<<[k |-> "match_id", v |-> PyInt(12)],
      [k |-> "radiant_gold_adv", v |-> PyList(<<>>)]>>)

NotFound ==
    PyDict(<<[k |-> "error", v |-> PyStr(<<"N", "o", "t", " ", "F", "o", "u", "n", "d">>)]>>)

MatchBodies == {ParsedMatch, ParsedOne, UnparsedMatch, UnparsedNull, ParsedNoPlayers, NotFound}

\* the JSON bodies upstream may answer a request with
UpstreamJson(req) ==
    CASE req.endpoint.path = "/heroes" ->
           {PyList(HeroesList), PyList(<<[id |-> 7]>>)}
      [] req.endpoint.path = "/players/{}/wl" ->
           {[win |-> 3, lose |-> 1], [win |-> 0, lose |-> 0], [error |-> "x"]}
      [] req.endpoint.path = "/matches/{}" -> MatchBodies
      [] req.endpoint.path = "/players/{}/histograms/{}" ->
           {PyList(<<[x |-> 0, games |-> 0, win |-> 0], [x |-> 1, games |-> 4, win |-> 1]>>),
            PyList(<<[x |-> 0, games |-> 2]>>)}
      [] req.endpoint.path = "/heroes/{}/matchups" ->
           {PyList(<<[hero_id |-> 1, games_played |-> 4, wins |-> 3],
                     [hero_id |-> 99, games_played |-> 0, wins |-> 0]>>),
            PyList(<<[hero_id |-> 2]>>)}

\* fetch_api(endpoint, params) up to the end of "await rate_limiter.acquire()"
\* or its first suspension; c is the caller's frame, stk the callers'
\* continuations
FetchEntry(t, c, stk, endpoint, params) ==
    /\ GetHttpClient
    /\ cur' = [cur EXCEPT ![t] =
                 [c EXCEPT !.client = http_client',
                           !.fAdm = Len(admitted),
                           !.fSent = Len(c.sent),
                           !.req = [endpoint |-> endpoint,
                                    params |-> ParamsOrEmpty(params)]]]
    /\ EnterAcquire(t, <<"fetch_get">> \o stk)

\* one fetch_api call as it ends: the admissions and the GETs it made, and
\* the body it was answered with
FetchSummary(t, c, end) ==
    [acq |-> AcqCount(t, c.fAdm), gets |-> Len(c.sent) - c.fSent, end |-> end,
     client |-> c.client, body |-> PyNone]

\* a fetch_api that sends its GET a second time
FetchSendTwice(c) ==
    LET r == [client |-> c.client, url |-> <<OPENDOTA_BASE_URL, c.req.endpoint>>,
              params |-> c.req.params]
    IN c.sent \o <<r, r>>

\* client.get(url, params=params)
FetchSend(c) ==
    Append(c.sent, [client |-> c.client, url |-> <<OPENDOTA_BASE_URL, c.req.endpoint>>,
                    params |-> c.req.params])

FetchGet(t) ==
    /\ pc[t] = "fetch_get"
    /\ cur' = [cur EXCEPT ![t].sent = FetchSend(cur[t])]
    /\ pc' = [pc EXCEPT ![t] = "fetch_http"]
    /\ UNCHANGED <<clock, rlVars, ret, calls, clientVars, PLAYER_CACHE, refVars>>

\* the response is in: raise_for_status(), json(), and the except clauses
\* that log and re-raise
FetchReply(t) ==
    /\ pc[t] = "fetch_http"
    /\ \E o \in HttpOutcomes :
         LET c == [cur[t] EXCEPT !.flog = Append(@, FetchSummary(t, cur[t], o))]
         IN IF o = "ok"
            THEN \E body \in UpstreamJson(cur[t].req) :
                    Return(t, [c EXCEPT !.flog[Len(c.flog)].body = body], body)
            ELSE Raise(t, c, HttpFailure(o))
    /\ UNCHANGED <<clock, rlVars, calls, clientVars, PLAYER_CACHE, refVars>>

\* ---------------------------------------------------------- get_account_id

\* what /search may answer: no player, one, several (in one order at one
\* time, in another at another), an entry without the key
SearchBodies ==
    { <<>>,
      <<[account_id |-> 4321]>>,
      <<[account_id |-> 4321], [account_id |-> 77]>>,
      <<[account_id |-> 77], [account_id |-> 4321]>>,
      <<[personaname |-> "x"]>> }

\* the account id of the last search result
PickLast(search_results) == search_results[Len(search_results)]

\* search_results[0]
PickFirst(search_results) == search_results[1]

\* get_account_id(player_name) up to its return (a cache hit) or to the end
\* of "await rate_limiter.acquire()" or its first suspension
AcctEntry(t, c, stk, player_name) ==
    LET player_name_lower == StrLower(player_name)
    IN IF player_name_lower \in DOMAIN PLAYER_CACHE
       THEN /\ ReturnTo(t, stk, [c EXCEPT !.hit = TRUE],
                         PyStr(PLAYER_CACHE[player_name_lower]))
            /\ UNCHANGED <<rlVars, http_client, nClients, acloseCalls>>
       ELSE /\ GetHttpClient
            /\ cur' = [cur EXCEPT ![t] =
                         [c EXCEPT !.client = http_client', !.name = player_name,
                                   !.hit = FALSE]]
            /\ EnterAcquire(t, <<"acct_get">> \o stk)

\* client.get(f"{OPENDOTA_BASE_URL}/search?q={player_name}")
AcctGet(t) ==
    /\ pc[t] = "acct_get"
    /\ cur' = [cur EXCEPT ![t].sent =
                 Append(@, [client |-> cur[t].client,
                            url |-> <<OPENDOTA_BASE_URL, "/search?q=", cur[t].name>>,
                            params |-> PyNone])]
    /\ pc' = [pc EXCEPT ![t] = "acct_http"]
    /\ UNCHANGED <<clock, rlVars, ret, calls, clientVars, PLAYER_CACHE, refVars>>

\* a write-back that happens before the results are looked at
CacheAfterSearchEager(cache, key, search_results) ==
    IF search_results # <<>> /\ "account_id" \in DOMAIN PickFirst(search_results)
    THEN key :> DecStr(PickFirst(search_results).account_id) @@ cache
    ELSE key :> <<>> @@ cache

\* PLAYER_CACHE after the search answered: written only past both raises
CacheAfterSearch(cache, key, search_results) ==
    IF search_results # <<>> /\ "account_id" \in DOMAIN PickFirst(search_results)
    THEN key :> DecStr(PickFirst(search_results).account_id) @@ cache
    ELSE cache

\* the search response is in: raise_for_status(), json(), the first result
AcctReply(t) ==
    /\ pc[t] = "acct_http"
    /\ \E o \in HttpOutcomes :
         IF o = "ok"
         THEN \E search_results \in SearchBodies :
                LET c == [cur[t] EXCEPT !.search_results = PyList(search_results)]
                IN /\ PLAYER_CACHE' = CacheAfterSearch(PLAYER_CACHE, StrLower(c.name),
                                                       search_results)
                   /\ IF search_results = <<>>
                      THEN Raise(t, c, Exc("ValueError", Msg("No players found", <<c.name>>)))
                      ELSE IF "account_id" \notin DOMAIN PickFirst(search_results)
                      THEN Raise(t, c, Exc("KeyError", Msg("account_id", <<>>)))
                      ELSE Return(t, c, PyStr(DecStr(PickFirst(search_results).account_id)))
         ELSE /\ Raise(t, cur[t], HttpFailure(o))
              /\ PLAYER_CACHE' = PLAYER_CACHE
    /\ UNCHANGED <<clock, rlVars, calls, clientVars, refVars>>

\* str(x) as f-strings format an int, a str or None into a path
StrOf(x) ==
    CASE x.t = "int" -> DecStr(x.v)
      [] x.t = "str" -> x.v
      [] OTHER -> <<"N", "o", "n", "e">>

\* --------------------------------------------------------------- resolvers

RECURSIVE StrRemove(_, _)
\* s.replace(c, "") for a one-character c
StrRemove(s, c) ==
    IF s = <<>> THEN <<>>
    ELSE IF Head(s) = c THEN StrRemove(Tail(s), c)
    ELSE <<Head(s)>> \o StrRemove(Tail(s), c)

\* a normalisation that keeps the letter case
NormalizeKeepCase(name) == StrRemove(StrRemove(StrRemove(name, " "), "-"), "'")

\* _normalize_name: name.lower().replace(" ", "").replace("-", "").replace("'", "")
_normalize_name(name) == StrRemove(StrRemove(StrRemove(StrLower(name), " "), "-"), "'")

Whitespace == {" ", "\t", "\n", "\r"}

RECURSIVE StrLStrip(_)
StrLStrip(s) ==
    IF s # <<>> /\ Head(s) \in Whitespace THEN StrLStrip(Tail(s)) ELSE s

RECURSIVE StrRStrip(_)
StrRStrip(s) ==
    IF s # <<>> /\ s[Len(s)] \in Whitespace THEN StrRStrip(SubSeq(s, 1, Len(s) - 1)) ELSE s

\* s.strip()
StrStrip(s) == StrRStrip(StrLStrip(s))

RECURSIVE CommonPrefix(_, _, _, _, _, _)
\* the length of the longest k with a[i:i+k] == b[j:j+k] inside a[..ahi), b[..bhi)
CommonPrefix(a, b, i, j, ahi, bhi) ==
    IF i < ahi /\ j < bhi /\ a[i] = b[j]
    THEN 1 + CommonPrefix(a, b, i + 1, j + 1, ahi, bhi)
    ELSE 0

\* SequenceMatcher.find_longest_match without junk: the longest block common
\* to a[alo:ahi) and b[blo:bhi), the one that starts earliest in a and, among
\* those, earliest in b
FindLongestMatch(a, b, alo, ahi, blo, bhi) ==
    LET cands == (alo..(ahi - 1)) \X (blo..(bhi - 1))
        size(p) == CommonPrefix(a, b, p[1], p[2], ahi, bhi)
        best == IF cands = {} THEN 0
                ELSE CHOOSE k \in {size(p) : p \in cands} :
                         \A p \in cands : size(p) <= k
    IN IF best = 0 THEN <<alo, blo, 0>>
       ELSE LET top == {p \in cands : size(p) = best}
                i == CHOOSE x \in {p[1] : p \in top} : \A p \in top : x <= p[1]
                j == CHOOSE y \in {p[2] : p \in {q \in top : q[1] = i}} :
                         \A p \in {q \in top : q[1] = i} : y <= p[2]
            IN <<i, j, best>>

RECURSIVE MatchingCount(_, _, _, _, _, _)
\* the total size of SequenceMatcher.get_matching_blocks()
MatchingCount(a, b, alo, ahi, blo, bhi) ==
    LET m == FindLongestMatch(a, b, alo, ahi, blo, bhi)
    IN IF m[3] = 0 THEN 0
       ELSE m[3] + MatchingCount(a, b, alo, m[1], blo, m[2])
                 + MatchingCount(a, b, m[1] + m[3], ahi, m[2] + m[3], bhi)

\* _similarity(a, b) == SequenceMatcher(None, a, b).ratio() == 2.0 * M / T,
\* kept as the fraction num / den (1.0 when both strings are empty)
_similarity(a, b) ==
    IF Len(a) + Len(b) = 0 THEN [num |-> 1, den |-> 1]
    ELSE [num |-> 2 * MatchingCount(a, b, 1, Len(a) + 1, 1, Len(b) + 1),
          den |-> Len(a) + Len(b)]

\* the thresholds, in tenths
SIMILARITY_THRESHOLD_HIGH == 9
SIMILARITY_THRESHOLD_MEDIUM == 8
SIMILARITY_THRESHOLD_FUZZY == 7
SIMILARITY_THRESHOLD_STAT_FIELD == 6
SIMILARITY_THRESHOLD_SUGGESTION == 5

\* sim >= tenths / 10
SimAtLeast(sim, tenths) == sim.num * 10 >= tenths * sim.den

\* x >= y for two similarities
SimGE(x, y) == x.num * y.den >= y.num * x.den

RECURSIVE SortBySimilarity(_)
\* list.sort(key=lambda x: x['similarity'], reverse=True): descending and
\* stable, equal entries keep their order
SortBySimilarity(s) ==
    IF s = <<>> THEN <<>>
    ELSE LET front == SortBySimilarity(SubSeq(s, 1, Len(s) - 1))
             x == s[Len(s)]
             p == Cardinality({i \in DOMAIN front : SimGE(front[i].similarity, x.similarity)})
         IN SubSeq(front, 1, p) \o <<x>> \o SubSeq(front, p + 1, Len(front))

\* s[:n]
Take(s, n) == SubSeq(s, 1, IF Len(s) < n THEN Len(s) ELSE n)

\* a dict is the sequence of its items, in insertion order
DictHas(d, key) == \E i \in DOMAIN d : d[i].k = key
DictGet(d, key) == d[CHOOSE i \in DOMAIN d : d[i].k = key].v
DictValues(d) == [i \in DOMAIN d |-> d[i].v]

\* hero['localized_name'] does not raise KeyError
HeroOk(hero) == "localized_name" \in DOMAIN hero

MinOf(S) == CHOOSE i \in S : \A k \in S : i <= k

\* step 1 ends at the first entry that is malformed or equal after
\* normalisation
ExactStops(heroes, hero_name_normalized) ==
    {i \in DOMAIN heroes :
        \/ ~HeroOk(heroes[i])
        \/ _normalize_name(heroes[i].localized_name) = hero_name_normalized}

HeroAtStop(hero) ==
    IF ~HeroOk(hero)
    THEN [raise |-> Exc("KeyError", Msg("localized_name", <<>>))]
    ELSE [hero_id |-> hero.id, localized_name |-> hero.localized_name,
          match_type |-> "exact"]

\* every entry with its similarity to the name, in list order
Scored(heroes, hero_name_normalized) ==
    [i \in DOMAIN heroes |->
       [hero_id |-> heroes[i].id,
        localized_name |-> heroes[i].localized_name,
        similarity |-> _similarity(hero_name_normalized,
                                   _normalize_name(heroes[i].localized_name))]]

IsMatch(m) == SimAtLeast(m.similarity, SIMILARITY_THRESHOLD_MEDIUM)
IsSuggestion(m) == SimAtLeast(m.similarity, SIMILARITY_THRESHOLD_SUGGESTION)
Names(s) == [i \in DOMAIN s |-> s[i].localized_name]

\* a matcher that takes the last entry of the sorted matches
BestMatchLast(matches) == matches[Len(matches)]

\* best_match = matches[0], after matches.sort(...)
BestMatch(matches) == matches[1]

\* steps 2 and 3 on the sorted matches and the sorted suggestions
HeroFuzzy(hero_name, matches, suggestions) ==
    IF matches # <<>>
    THEN IF SimAtLeast(BestMatch(matches).similarity, SIMILARITY_THRESHOLD_HIGH)
         THEN [hero_id |-> BestMatch(matches).hero_id,
               localized_name |-> BestMatch(matches).localized_name,
               match_type |-> "fuzzy", confidence |-> "high"]
         ELSE [hero_id |-> BestMatch(matches).hero_id,
               localized_name |-> BestMatch(matches).localized_name,
               match_type |-> "fuzzy", confidence |-> "medium",
               alternatives |-> Names(Take(matches, 3))]
    ELSE [error |-> Msg("Hero not found", <<hero_name>>),
          suggestions |-> Names(Take(suggestions, 5))]

HeroFuzzyScored(hero_name, scored) ==
    HeroFuzzy(hero_name, SortBySimilarity(SelectSeq(scored, IsMatch)),
              SortBySimilarity(SelectSeq(scored, IsSuggestion)))

HeroIdSteps(heroes, hero_name, hero_name_normalized, stops) ==
    IF stops # {} THEN HeroAtStop(heroes[MinOf(stops)])
    ELSE HeroFuzzyScored(hero_name, Scored(heroes, hero_name_normalized))

HeroIdNormalized(heroes, hero_name, hero_name_normalized) ==
    HeroIdSteps(heroes, hero_name, hero_name_normalized,
                ExactStops(heroes, hero_name_normalized))

\* get_hero_id_by_name_logic once the hero list is at hand: the result dict,
\* or the exception a malformed entry raises
HeroIdByName(heroes, hero_name) ==
    HeroIdNormalized(heroes, hero_name, _normalize_name(hero_name))

\* config.LANE_MAPPING
LANE_MAPPING ==
    <<
       <<<<"s", "a", "f", "e", " ", "l", "a", "n", "e">>, 1>>,
       <<<<"s", "a", "f", "e", "l", "a", "n", "e">>, 1>>,
       <<<<"s", "a", "f", "e">>, 1>>,
       <<<<"c", "a", "r", "r", "y">>, 1>>,
       <<<<"p", "o", "s", " ", "1">>, 1>>,
       <<<<"p", "o", "s", "i", "t", "i", "o", "n", " ", "1">>, 1>>,
       <<<<"p", "o", "s", "1">>, 1>>,
       <<<<"1">>, 1>>,
       <<<<"h", "a", "r", "d", " ", "s", "u", "p", "p", "o", "r", "t">>, 1>>,
       <<<<"h", "a", "r", "d", "s", "u", "p", "p", "o", "r", "t">>, 1>>,
       <<<<"h", "a", "r", "d", " ", "s", "u", "p">>, 1>>,
       <<<<"h", "a", "r", "d", "s", "u", "p">>, 1>>,
       <<<<"p", "o", "s", " ", "5">>, 1>>,
       <<<<"p", "o", "s", "i", "t", "i", "o", "n", " ", "5">>, 1>>,
       <<<<"p", "o", "s", "5">>, 1>>,
       <<<<"5">>, 1>>,
       <<<<"m", "i", "d">>, 2>>,
       <<<<"m", "i", "d", "l", "a", "n", "e">>, 2>>,
       <<<<"m", "i", "d", " ", "l", "a", "n", "e">>, 2>>,
       <<<<"m", "i", "d", "d", "l", "e">>, 2>>,
       <<<<"p", "o", "s", " ", "2">>, 2>>,
       <<<<"p", "o", "s", "i", "t", "i", "o", "n", " ", "2">>, 2>>,
       <<<<"p", "o", "s", "2">>, 2>>,
       <<<<"2">>, 2>>,
       <<<<"o", "f", "f", " ", "l", "a", "n", "e">>, 3>>,
       <<<<"o", "f", "f", "l", "a", "n", "e">>, 3>>,
       <<<<"o", "f", "f">>, 3>>,
       <<<<"h", "a", "r", "d", " ", "l", "a", "n", "e">>, 3>>,
       <<<<"h", "a", "r", "d", "l", "a", "n", "e">>, 3>>,
       <<<<"p", "o", "s", " ", "3">>, 3>>,
       <<<<"p", "o", "s", "i", "t", "i", "o", "n", " ", "3">>, 3>>,
       <<<<"p", "o", "s", "3">>, 3>>,
       <<<<"3">>, 3>>,
       <<<<"s", "o", "t", " ", "s", "u", "p", "p", "o", "r", "t">>, 1>>,
       <<<<"s", "o", "f", "t", "s", "u", "p", "p", "o", "r", "t">>, 1>>,
       <<<<"s", "o", "f", "t", " ", "s", "u", "p">>, 1>>,
       <<<<"s", "o", "f", "t", "s", "u", "p">>, 1>>,
       <<<<"p", "o", "s", " ", "4">>, 1>>,
       <<<<"p", "o", "s", "i", "t", "i", "o", "n", " ", "4">>, 1>>,
       <<<<"p", "o", "s", "4">>, 1>>,
       <<<<"4">>, 1>>
    >>

LaneKeys == {LANE_MAPPING[i][1] : i \in DOMAIN LANE_MAPPING}
LaneOf(key) == LANE_MAPPING[CHOOSE i \in DOMAIN LANE_MAPPING : LANE_MAPPING[i][1] = key][2]

LaneLookup(lane_name, key) ==
    IF key \in LaneKeys
    THEN [lane_role |-> LaneOf(key)]
    ELSE [error |-> Msg("Lane not recognized", <<lane_name>>)]

\* a lane lookup that does not trim the name
ConvertLaneNoStrip(lane_name) == LaneLookup(lane_name, StrLower(lane_name))

\* convert_lane_name_to_id_logic (the description text is left out):
\* the key is lane_name.lower().strip()
convert_lane_name_to_id_logic(lane_name) ==
    LaneLookup(lane_name, StrStrip(StrLower(lane_name)))

LaneResult(lane, result) ==
    IF "error" \in DOMAIN result
    THEN [raise |-> Exc("ValueError", Msg("Lane not recognized", <<lane.v>>))]
    ELSE [ok |-> PyInt(result.lane_role)]

\* resolve_lane: the lane_role, or the ValueError
resolve_lane(lane) ==
    IF lane = PyNone THEN [ok |-> PyNone]
    ELSE IF lane.t = "int"
    THEN IF 1 <= lane.v /\ lane.v <= 4
         THEN [ok |-> lane]
         ELSE [raise |-> Exc("ValueError", Msg("Lane role must be between 1-4", <<lane.v>>))]
    ELSE LaneResult(lane, convert_lane_name_to_id_logic(lane.v))

HeroResult(hero, result) ==
    IF "raise" \in DOMAIN result THEN result
    ELSE IF "error" \in DOMAIN result
    THEN [raise |-> Exc("ValueError",
                        Msg("Hero not found", <<hero.v, Take(result.suggestions, 3)>>))]
    ELSE [ok |-> PyInt(result.hero_id)]

\* resolve_hero once the hero list is at hand (hero is a str): the hero id,
\* or the exception
ResolveHeroWith(heroes, hero) == HeroResult(hero, HeroIdByName(heroes, hero.v))

\* config.ITEM_NAME_CONVERSION: internal name -> aliases, in the order of the
\* dict
ITEM_NAME_CONVERSION ==
    <<
       <<<<"b", "f", "u", "r", "y">>,
         <<<<"b", "a", "t", "t", "l", "e", " ", "f", "u", "r", "y">>, <<"b", "a", "t", "t", "l", "e", " ", "f", "u", "r", "r", "y">>>>>>,
       <<<<"u", "l", "t", "i", "m", "a", "t", "e", "_", "s", "c", "e", "p", "t", "e", "r">>,
         <<<<"a", "g", "h", "a", "n", "i", "m", "s", " ", "s", "c", "e", "p", "t", "e", "r">>, <<"a", "g", "h", "a", "n", "i", "m", " ", "s", "c", "e", "p", "t", "e", "r">>, <<"a", "g", "h", "a", "n", "i", "m">>, <<"a", "g", "h", " ", "s", "c", "e", "p", "t", "e", "r">>, <<"s", "c", "e", "p", "t", "e", "r">>>>>>,
       <<<<"s", "h", "a", "r", "d">>,
         <<<<"a", "g", "h", " ", "s", "h", "a", "r", "d">>, <<"a", "g", "h", "a", "n", "i", "m", " ", "s", "h", "a", "r", "d">>, <<"a", "g", "h", "a", "n", "i", "m", "s", " ", "s", "h", "a", "r", "d">>>>>>,
       <<<<"h", "a", "n", "d", "_", "o", "f", "_", "m", "i", "d", "a", "s">>,
         <<<<"m", "i", "d", "a", "s">>, <<"h", "a", "n", "d", "s", " ", "o", "f", " ", "m", "i", "d", "a", "s">>>>>>,
       <<<<"g", "u", "a", "r", "d", "i", "a", "n", "_", "g", "r", "i", "e", "v", "e", "s">>,
         <<<<"g", "u", "a", "r", "d", "i", "a", "n", "s", " ", "o", "f", " ", "g", "r", "i", "e", "v", "e", "s">>, <<"g", "u", "a", "r", "d", "i", "a", "n", " ", "o", "f", " ", "g", "r", "i", "e", "v", "e", "s">>, <<"g", "r", "i", "e", "v", "e", "s">>>>>>,
       <<<<"s", "p", "i", "r", "i", "t", "_", "v", "e", "s", "s", "e", "l">>,
         <<<<"v", "e", "s", "s", "e", "l">>, <<"s", "p", "i", "r", "i", "t", "s", " ", "v", "e", "s", "s", "e", "l">>, <<"s", "p", "r", "i", "t", " ", "v", "e", "s", "s", "e", "l">>>>>>,
       <<<<"s", "k", "a", "d", "i">>,
         <<<<"e", "y", "e", " ", "o", "f", " ", "s", "k", "a", "d", "i">>, <<"e", "y", "e", "s", " ", "o", "f", " ", "s", "k", "a", "d", "i">>, <<"e", "y", "e", "o", "f", "s", "k", "a", "d", "i">>, <<"e", "y", "e", "s", "o", "f", "s", "k", "a", "d", "i">>>>>>,
       <<<<"b", "l", "a", "c", "k", "_", "k", "i", "n", "g", "_", "b", "a", "r">>,
         <<<<"b", "k", "b">>, <<"b", "l", "a", "c", "k", " ", "k", "i", "n", "g">>>>>>,
       <<<<"m", "o", "n", "k", "e", "y", "_", "k", "i", "n", "g", "_", "b", "a", "r">>,
         <<<<"m", "k", "b">>, <<"m", "o", "n", "k", "e", "y", " ", "k", "i", "n", "g">>>>>>,
       <<<<"d", "i", "f", "f", "u", "s", "a", "l", "_", "b", "l", "a", "d", "e">>,
         <<<<"d", "i", "f", "f", "u", "s", "a", "l">>>>>>,
       <<<<"o", "c", "t", "a", "r", "i", "n", "e", "_", "c", "o", "r", "e">>,
         <<<<"o", "c", "t", "a", "r", "i", "n", "e">>>>>>,
       <<<<"t", "r", "a", "v", "e", "l", "_", "b", "o", "o", "t", "s">>,
         <<<<"b", "o", "t">>, <<"b", "o", "t", "s">>, <<"t", "r", "a", "v", "e", "l", "s">>, <<"b", "o", "o", "t", "s", " ", "o", "f", " ", "t", "r", "a", "v", "e", "l">>>>>>,
       <<<<"p", "o", "w", "e", "r", "_", "t", "r", "e", "a", "d", "s">>,
         <<<<"t", "r", "e", "a", "d", "s">>, <<"p", "t">>>>>>,
       <<<<"p", "h", "a", "s", "e", "_", "b", "o", "o", "t", "s">>,
         <<<<"p", "h", "a", "s", "e">>>>>>,
       <<<<"t", "r", "a", "n", "q", "u", "i", "l", "_", "b", "o", "o", "t", "s">>,
         <<<<"t", "r", "a", "n", "q", "u", "i", "l", "s">>>>>>
    >>

\* step 1: the rows with an alias equal to the input after normalisation
AliasHit(aliases, input_normalized) ==
    \E k \in DOMAIN aliases : _normalize_name(aliases[k]) = input_normalized

AliasRows(input_normalized) ==
    {i \in DOMAIN ITEM_NAME_CONVERSION :
        AliasHit(ITEM_NAME_CONVERSION[i][2], input_normalized)}

\* item_data.get('dname', '')
DnameOf(item_data) == IF "dname" \in DOMAIN item_data THEN item_data.dname ELSE <<>>

\* steps 2 and 3: the items whose key, or display name, equals the input
\* after normalisation
SlugRows(items, input_normalized) ==
    {i \in DOMAIN items : _normalize_name(items[i].k) = input_normalized}

DnameRows(items, input_normalized) ==
    {i \in DOMAIN items : _normalize_name(DnameOf(items[i].v)) = input_normalized}

\* max(internal_sim, display_sim)
SimMax(internal_sim, display_sim) ==
    IF SimGE(internal_sim, display_sim) THEN internal_sim ELSE display_sim

\* step 4: every item with the better of its two similarities
ItemScored(items, input_normalized) ==
    [i \in DOMAIN items |->
       [internal_name |-> items[i].k,
        similarity |-> SimMax(_similarity(input_normalized, _normalize_name(items[i].k)),
                              _similarity(input_normalized,
                                          _normalize_name(DnameOf(items[i].v))))]]

IsItemMatch(m) == SimAtLeast(m.similarity, SIMILARITY_THRESHOLD_FUZZY)

ItemFuzzy(item_input, matches) ==
    IF matches # <<>> THEN [ok |-> PyStr(matches[1].internal_name)]
    ELSE [raise |-> Exc("ValueError", Msg("Item not found", <<item_input>>))]

ItemFromCatalog(items, item_input, input_normalized, slugs, dnames) ==
    IF slugs # {} THEN [ok |-> PyStr(items[MinOf(slugs)].k)]
    ELSE IF dnames # {} THEN [ok |-> PyStr(items[MinOf(dnames)].k)]
    ELSE ItemFuzzy(item_input,
                   SortBySimilarity(SelectSeq(ItemScored(items, input_normalized),
                                              IsItemMatch)))

ItemLayers(items, item_input, input_normalized, aliases) ==
    IF aliases # {} THEN [ok |-> PyStr(ITEM_NAME_CONVERSION[MinOf(aliases)][1])]
    ELSE ItemFromCatalog(items, item_input, input_normalized,
                         SlugRows(items, input_normalized),
                         DnameRows(items, input_normalized))

\* resolve_item_to_internal_name: None passes; an empty items catalog is
\* refused before any layer is tried
resolve_item_to_internal_name(item_input) ==
    IF item_input = PyNone THEN [ok |-> PyNone]
    ELSE IF REFERENCE_DATA["items"] = <<>>
    THEN [raise |-> Exc("ValueError", Msg("Items reference data not loaded", <<>>))]
    ELSE ItemLayers(REFERENCE_DATA["items"], item_input.v, _normalize_name(item_input.v),
                    AliasRows(_normalize_name(item_input.v)))

\* ---- resolve_stat_field

\* config.VALID_STAT_FIELDS: the synonyms and the canonical name of each
VALID_STAT_FIELDS ==
    <<
       <<<<"k", "i", "l", "l", "s">>, <<"k", "i", "l", "l", "s">>>>,
       <<<<"d", "e", "a", "t", "h", "s">>, <<"d", "e", "a", "t", "h", "s">>>>,
       <<<<"d", "e", "a", "t", "h">>, <<"d", "e", "a", "t", "h", "s">>>>,
       <<<<"a", "s", "s", "i", "s", "t", "s">>, <<"a", "s", "s", "i", "s", "t", "s">>>>,
       <<<<"a", "s", "s", "i", "s", "t">>, <<"a", "s", "s", "i", "s", "t", "s">>>>,
       <<<<"h", "e", "r", "o", "_", "d", "a", "m", "a", "g", "e">>, <<"h", "e", "r", "o", "_", "d", "a", "m", "a", "g", "e">>>>,
       <<<<"h", "e", "r", "o", "d", "a", "m", "a", "g", "e">>, <<"h", "e", "r", "o", "_", "d", "a", "m", "a", "g", "e">>>>,
       <<<<"d", "a", "m", "a", "g", "e">>, <<"h", "e", "r", "o", "_", "d", "a", "m", "a", "g", "e">>>>,
       <<<<"h", "e", "r", "o", "_", "h", "e", "a", "l", "i", "n", "g">>, <<"h", "e", "r", "o", "_", "h", "e", "a", "l", "i", "n", "g">>>>,
       <<<<"h", "e", "r", "o", "h", "e", "a", "l", "i", "n", "g">>, <<"h", "e", "r", "o", "_", "h", "e", "a", "l", "i", "n", "g">>>>,
       <<<<"h", "e", "a", "l", "i", "n", "g">>, <<"h", "e", "r", "o", "_", "h", "e", "a", "l", "i", "n", "g">>>>,
       <<<<"g", "o", "l", "d", "_", "p", "e", "r", "_", "m", "i", "n">>, <<"g", "o", "l", "d", "_", "p", "e", "r", "_", "m", "i", "n">>>>,
       <<<<"g", "p", "m">>, <<"g", "o", "l", "d", "_", "p", "e", "r", "_", "m", "i", "n">>>>,
       <<<<"g", "o", "l", "d", "p", "e", "r", "m", "i", "n">>, <<"g", "o", "l", "d", "_", "p", "e", "r", "_", "m", "i", "n">>>>,
       <<<<"x", "p", "_", "p", "e", "r", "_", "m", "i", "n">>, <<"x", "p", "_", "p", "e", "r", "_", "m", "i", "n">>>>,
       <<<<"x", "p", "m">>, <<"x", "p", "_", "p", "e", "r", "_", "m", "i", "n">>>>,
       <<<<"e", "x", "p", "p", "e", "r", "m", "i", "n">>, <<"x", "p", "_", "p", "e", "r", "_", "m", "i", "n">>>>,
       <<<<"l", "a", "s", "t", "_", "h", "i", "t", "s">>, <<"l", "a", "s", "t", "_", "h", "i", "t", "s">>>>,
       <<<<"l", "a", "s", "t", "h", "i", "t", "s">>, <<"l", "a", "s", "t", "_", "h", "i", "t", "s">>>>,
       <<<<"c", "s">>, <<"l", "a", "s", "t", "_", "h", "i", "t", "s">>>>,
       <<<<"c", "r", "e", "e", "p", " ", "s", "c", "o", "r", "e">>, <<"l", "a", "s", "t", "_", "h", "i", "t", "s">>>>,
       <<<<"d", "e", "n", "i", "e", "s">>, <<"d", "e", "n", "i", "e", "s">>>>,
       <<<<"d", "e", "n", "y", "s">>, <<"d", "e", "n", "i", "e", "s">>>>,
       <<<<"d", "e", "n", "y">>, <<"d", "e", "n", "i", "e", "s">>>>,
       <<<<"d", "u", "r", "a", "t", "i", "o", "n">>, <<"d", "u", "r", "a", "t", "i", "o", "n">>>>,
       <<<<"m", "a", "t", "c", "h", " ", "d", "u", "r", "a", "t", "i", "o", "n">>, <<"d", "u", "r", "a", "t", "i", "o", "n">>>>,
       <<<<"m", "a", "t", "c", "h", "d", "u", "r", "a", "t", "i", "o", "n">>, <<"d", "u", "r", "a", "t", "i", "o", "n">>>>,
       <<<<"m", "a", "t", "c", "h", "_", "l", "e", "n", "g", "t", "h">>, <<"d", "u", "r", "a", "t", "i", "o", "n">>>>,
       <<<<"m", "a", "t", "c", "h", "l", "e", "n", "g", "t", "h">>, <<"d", "u", "r", "a", "t", "i", "o", "n">>>>
    >>

StatKeys == {VALID_STAT_FIELDS[i][1] : i \in DOMAIN VALID_STAT_FIELDS}
StatOf(key) ==
    VALID_STAT_FIELDS[CHOOSE i \in DOMAIN VALID_STAT_FIELDS : VALID_STAT_FIELDS[i][1] = key][2]

\* s.replace(c, d) for one-character c and d
StrReplace(s, c, d) == [i \in DOMAIN s |-> IF s[i] = c THEN d ELSE s[i]]

\* the characters of the table's keys in the order of their code points
KeyAlphabet == <<" ", "_">> \o LowerCase
CharRank(c) == CHOOSE i \in DOMAIN KeyAlphabet : KeyAlphabet[i] = c

RECURSIVE StrLess(_, _)
\* a < b for two str
StrLess(a, b) ==
    IF b = <<>> THEN FALSE
    ELSE IF a = <<>> THEN TRUE
    ELSE IF Head(a) = Head(b) THEN StrLess(Tail(a), Tail(b))
    ELSE CharRank(Head(a)) < CharRank(Head(b))

\* (score, x) > (score, x) for two tuples of get_close_matches
CloserThan(p, q) ==
    IF SimGE(p.score, q.score) /\ SimGE(q.score, p.score) THEN StrLess(q.x, p.x)
    ELSE SimGE(p.score, q.score)

RECURSIVE NLargest(_, _)
\* heapq.nlargest(n, result), without the scores
NLargest(n, result) ==
    IF n = 0 \/ result = {} THEN <<>>
    ELSE LET top == CHOOSE p \in result : \A q \in result \ {p} : CloserThan(p, q)
         IN <<top.x>> \o NLargest(n - 1, result \ {top})

\* difflib.get_close_matches(word, possibilities, n, cutoff): the n
\* possibilities x whose SequenceMatcher(a = x, b = word).ratio() is at least
\* the cutoff, the best first
get_close_matches(word, possibilities, n, cutoff) ==
    NLargest(n, {p \in {[score |-> _similarity(x, word), x |-> x] : x \in possibilities} :
                   SimAtLeast(p.score, cutoff)})

\* a fuzzy layer that returns the synonym it found
StatFuzzyKey(field, close_matches) ==
    IF close_matches # <<>> THEN [ok |-> PyStr(close_matches[1])]
    ELSE [raise |-> Exc("ValueError", Msg("Statistical field not recognized", <<field>>))]

StatFuzzy(field, close_matches) ==
    IF close_matches # <<>> THEN [ok |-> PyStr(StatOf(close_matches[1]))]
    ELSE [raise |-> Exc("ValueError", Msg("Statistical field not recognized", <<field>>))]

StatLayers(field, field_normalized, field_key, field_nospace) ==
    IF field_key \in StatKeys THEN [ok |-> PyStr(StatOf(field_key))]
    ELSE IF field_nospace \in StatKeys THEN [ok |-> PyStr(StatOf(field_nospace))]
    ELSE IF field_normalized \in StatKeys THEN [ok |-> PyStr(StatOf(field_normalized))]
    ELSE StatFuzzy(field, get_close_matches(field_normalized, StatKeys, 3,
                                            SIMILARITY_THRESHOLD_STAT_FIELD))

StatNormalized(field, field_normalized) ==
    StatLayers(field, field_normalized,
               StrReplace(field_normalized, " ", "_"), StrRemove(field_normalized, " "))

\* field.lower().strip().replace("_", " ").replace("-", " ")
StatNormalize(field) == StrReplace(StrReplace(StrStrip(StrLower(field)), "_", " "), "-", " ")

\* resolve_stat_field: a falsy field is refused before anything is looked up
resolve_stat_field(field) ==
    IF field = PyNone \/ field.v = <<>>
    THEN [raise |-> Exc("ValueError", Msg("Field cannot be empty", <<>>))]
    ELSE StatNormalized(field.v, StatNormalize(field.v))

\* ---- extract_match_sections

JHas(d, key) == \E i \in DOMAIN d.v : d.v[i].k = key
JGet(d, key) == d.v[CHOOSE i \in DOMAIN d.v : d.v[i].k = key].v
\* d.get(key, default)
JGetOr(d, key, default) == IF JHas(d, key) THEN JGet(d, key) ELSE default

\* sub in s, for two str
StrContains(s, sub) ==
    \E i \in 1..(Len(s) - Len(sub) + 1) : SubSeq(s, i, i + Len(sub) - 1) = sub

Chars_structuredContent == <<"s", "t", "r", "u", "c", "t", "u", "r", "e", "d", "C", "o", "n", "t", "e", "n", "t">>

\* 'structuredContent' in x: a key of a dict, an element of a list, a part
\* of a str; any other x is not iterable
InStructuredContent(x) ==
    CASE x.t = "dict" -> [ok |-> JHas(x, "structuredContent")]
      [] x.t = "list" -> [ok |-> \E i \in DOMAIN x.v : x.v[i] = PyStr(Chars_structuredContent)]
      [] x.t = "str" -> [ok |-> StrContains(x.v, Chars_structuredContent)]
      [] OTHER -> [raise |-> Exc("TypeError", Msg("argument is not iterable", <<x.t>>))]

\* data['result']['structuredContent'], once the test above said yes
ResultContent(result) ==
    IF result.t = "dict" THEN [ok |-> JGet(result, "structuredContent")]
    ELSE [raise |-> Exc("TypeError", Msg("indices must be integers", <<result.t>>))]

\* the two branches that do not look into data['result']
MatchOutsideResult(data) ==
    IF JHas(data, "structuredContent") THEN [ok |-> JGet(data, "structuredContent")]
    ELSE IF JHas(data, "match_id") /\ JHas(data, "players") THEN [ok |-> data]
    ELSE [raise |-> Exc("ValueError", Msg("Could not find match data in JSON", <<>>))]

\* the branches in a dict that has 'result'; inResult is the outcome of
\* 'structuredContent' in data.get('result', {})
MatchInResult(data, inResult) ==
    IF "raise" \in DOMAIN inResult THEN inResult
    ELSE IF inResult.ok THEN ResultContent(JGet(data, "result"))
    ELSE MatchOutsideResult(data)

\* the try block of extract_match_sections: where the match object is.
\* 'key' in data is False on a list of players and a TypeError on None or a
\* number; data.keys() on a list is an AttributeError, which the except
\* clause turns into a ValueError
LocateMatch(data) ==
    CASE data.t = "dict" ->
           IF JHas(data, "result")
           THEN MatchInResult(data, InStructuredContent(JGet(data, "result")))
           ELSE MatchOutsideResult(data)
      [] data.t = "list" -> [raise |-> Exc("ValueError", Msg("Invalid data structure", <<>>))]
      [] OTHER -> [raise |-> Exc("TypeError", Msg("argument is not iterable", <<data.t>>))]

section_keys ==
    <<"players", "teamfights", "objectives", "chat", "picks_bans", "radiant_gold_adv",
      "radiant_xp_adv", "cosmetics", "od_data", "all_word_counts", "my_word_counts">>

IsSectionOf(match, section) == JHas(match, section)

\* sections[section] = match[section] for the section keys the match has
Sections(match) ==
    LET present == SelectSeq(section_keys, LAMBDA section : IsSectionOf(match, section))
    IN [i \in DOMAIN present |-> [k |-> present[i], v |-> JGet(match, present[i])]]

\* not isinstance(v, (list, dict)) or k in ['all_word_counts', 'my_word_counts']
IsMetadata(item) ==
    item.v.t \notin {"list", "dict"} \/ item.k \in {"all_word_counts", "my_word_counts"}

Metadata(match) == PyDict(SelectSeq(match.v, IsMetadata))

\* from the validation of the match object on
SectionsOf(match) ==
    IF match.t # "dict"
    THEN [raise |-> Exc("ValueError", Msg("Match data must be a dictionary", <<match.t>>))]
    ELSE [ok |-> PyDict(Sections(match) \o <<[k |-> "metadata", v |-> Metadata(match)]>>)]

ExtractFrom(located) ==
    IF "raise" \in DOMAIN located THEN located ELSE SectionsOf(located.ok)

extract_match_sections(data) == ExtractFrom(LocateMatch(data))

\* ---- process_player_items

UpperChar(c) ==
    IF \E i \in DOMAIN LowerCase : LowerCase[i] = c
    THEN UpperCase[CHOOSE i \in DOMAIN LowerCase : LowerCase[i] = c]
    ELSE c

\* word.capitalize()
Capitalize(word) ==
    [i \in DOMAIN word |-> IF i = 1 THEN UpperChar(word[i]) ELSE LowerChar(word[i])]

RECURSIVE SplitFrom(_, _)
\* s.split(): the words between runs of whitespace, word being the one begun
SplitFrom(s, word) ==
    IF s = <<>> THEN (IF word = <<>> THEN <<>> ELSE <<word>>)
    ELSE IF Head(s) \in Whitespace
    THEN (IF word = <<>> THEN <<>> ELSE <<word>>) \o SplitFrom(Tail(s), <<>>)
    ELSE SplitFrom(Tail(s), Append(word, Head(s)))

RECURSIVE JoinWords(_)
\* " ".join(words)
JoinWords(words) ==
    IF words = <<>> THEN <<>>
    ELSE IF Len(words) = 1 THEN words[1]
    ELSE words[1] \o <<" ">> \o JoinWords(Tail(words))

lowercase_words ==
    {<<"o", "f">>, <<"t", "h", "e">>, <<"a", "n", "d">>, <<"a">>, <<"a", "n">>, <<"i", "n">>, <<"o", "n">>, <<"a", "t">>, <<"t", "o">>}

FormatWords(words) ==
    [i \in DOMAIN words |->
       IF i = 1 \/ words[i] \notin lowercase_words THEN Capitalize(words[i])
       ELSE StrLower(words[i])]

\* format_item_name: "ring_of_health" becomes "Ring of Health"
format_item_name(internal_name) ==
    JoinWords(FormatWords(SplitFrom(StrReplace(internal_name, "_", " "), <<>>)))

\* get_item_display_name_by_id: the formatted name of a known id, the id
\* itself otherwise
get_item_display_name_by_id(item_id) ==
    IF REFERENCE_DATA["item_ids"] # <<>> /\ DictHas(REFERENCE_DATA["item_ids"], StrOf(item_id))
    THEN PyStr(format_item_name(DictGet(REFERENCE_DATA["item_ids"], StrOf(item_id))))
    ELSE item_id

\* bool(x) of a JSON value
Truthy(x) ==
    CASE x.t = "none" -> FALSE
      [] x.t = "int" -> x.v # 0
      [] x.t = "bool" -> x.v
      [] x.t = "float" -> x.hundredths # 0
      [] OTHER -> x.v # <<>>

ItemSlots == <<"item_0", "item_1", "item_2", "item_3", "item_4", "item_5">>

\* the name in an item slot, None for an empty one
SlotName(item_id) == IF Truthy(item_id) THEN get_item_display_name_by_id(item_id) ELSE PyNone

final_build(player) ==
    [i \in DOMAIN ItemSlots |-> SlotName(JGetOr(player, ItemSlots[i], PyInt(0)))]

\* format_time: f"{mins}:{secs:02d}"
format_time(seconds) ==
    DecStr(seconds \div 60) \o <<":">>
      \o <<Digits[((seconds % 60) \div 10) + 1], Digits[((seconds % 60) % 10) + 1]>>

\* a cost lookup in a catalog that is given, loaded or not
ItemCostIn(items, item_name) ==
    IF items # <<>> /\ DictHas(items, item_name)
    THEN (IF "cost" \in DOMAIN DictGet(items, item_name)
          THEN DictGet(items, item_name).cost ELSE 0)
    ELSE 0

\* get_item_cost: the cost in REFERENCE_DATA['items'], 0 for an item that is
\* not there
get_item_cost(item_name) == ItemCostIn(REFERENCE_DATA["items"], item_name)

\* the test of one purchase: a name, a time, a cost of 2000 or more, a time
\* that is not negative
IsKeyTiming(purchase) ==
    /\ Truthy(JGetOr(purchase, "key", PyNone))
    /\ JGetOr(purchase, "time", PyNone) # PyNone
    /\ get_item_cost(JGet(purchase, "key").v) >= 2000
    /\ JGet(purchase, "time").v >= 0

KeyTiming(purchase) ==
    [item |-> JGet(purchase, "key"), time_formatted |-> PyStr(format_time(JGet(purchase, "time").v))]

\* the loop over the purchase log: the entries that pass, in the log's order
key_timings(purchase_log) ==
    LET kept == SelectSeq(purchase_log, IsKeyTiming)
    IN [i \in DOMAIN kept |-> KeyTiming(kept[i])]

\* process_player_items; a purchase_log that is null cannot be iterated
process_player_items(player) ==
    IF JGetOr(player, "purchase_log", PyList(<<>>)).t # "list"
    THEN [raise |-> Exc("TypeError", Msg("object is not iterable", <<>>))]
    ELSE [ok |-> [final_build |-> final_build(player),
                  neutral |-> SlotName(JGetOr(player, "item_neutral", PyInt(0))),
                  key_timings |-> key_timings(JGetOr(player, "purchase_log", PyList(<<>>)).v)]]

\* ------------------------------- tasks calling the API layer's operations

DirectEndpoints == {Endpoint("/heroes", <<>>)}

\* the nicknames tasks ask for: one cached in lower case, one not cached
PlayerNames == {<<"X", "i", "n", "o", "b", "i", "l", "l", "i", "e">>, <<"g", "h", "o", "s", "t">>}

CallFetchApi(t) ==
    /\ pc[t] = "idle"
    /\ calls < MaxApiCalls
    /\ calls' = calls + 1
    /\ \E endpoint \in DirectEndpoints :
         FetchEntry(t, NewCall("fetch_api", endpoint), <<"top_done">>, endpoint, PyNone)
    /\ UNCHANGED <<clock, everCleaned, PLAYER_CACHE, refVars>>

CallGetAccountId(t) ==
    /\ pc[t] = "idle"
    /\ calls < MaxApiCalls
    /\ calls' = calls + 1
    /\ \E player_name \in PlayerNames :
         AcctEntry(t, NewCall("get_account_id", player_name), <<"top_done">>, player_name)
    /\ UNCHANGED <<clock, everCleaned, PLAYER_CACHE, refVars>>

NextApi ==
    \/ \E t \in ApiTasks : CallFetchApi(t)
    \/ \E t \in ApiTasks : CallGetAccountId(t)
    \/ \E t \in ApiTasks : CallGetHttpClient(t)
    \/ \E t \in ApiTasks : CallCleanup(t)
    \/ \E t \in ApiTasks : CleanupDone(t)
    \/ \E t \in ApiTasks : FetchGet(t)
    \/ \E t \in ApiTasks : FetchReply(t)
    \/ \E t \in ApiTasks : AcctGet(t)
    \/ \E t \in ApiTasks : AcctReply(t)
    \/ \E t \in ApiTasks : Collect(t)
    \/ \E t \in ApiTasks : LockGranted(t)
    \/ \E t \in ApiTasks : Wake(t)
    \/ Tick

SpecApi == Init /\ [][NextApi]_vars

\* ------------------------------------------------- startup: reference data

\* heroes.json: str(id) -> hero
HeroesFile == [i \in DOMAIN HeroesList |-> [k |-> DecStr(HeroesList[i].id), v |-> HeroesList[i]]]

\* what json.load gives for a file that is there and parses
\* item_ids.json: the internal name of each item id
ItemIdsFile ==
    <<[k |-> DecStr(1), v |-> <<"b", "l", "i", "n", "k">>],
      [k |-> DecStr(65), v |-> <<"b", "f", "u", "r", "y">>],
      [k |-> DecStr(96), v |-> <<"r", "i", "n", "g", "_", "o", "f", "_", "h", "e", "a", "l", "t", "h">>],
      [k |-> DecStr(44), v |-> <<"t", "a", "n", "g", "o">>]>>

\* items.json, which the description of the data files lists: the display
\* name and the cost of each item
ItemsFile ==
    <<[k |-> <<"b", "l", "i", "n", "k">>, v |-> [dname |-> <<"B", "l", "i", "n", "k", " ", "D", "a", "g", "g", "e", "r">>, cost |-> 2250]],
      [k |-> <<"b", "f", "u", "r", "y">>, v |-> [dname |-> <<"B", "a", "t", "t", "l", "e", " ", "F", "u", "r", "y">>, cost |-> 4100]],
      [k |-> <<"p", "o", "i", "n", "t", "_", "b", "o", "o", "s", "t", "e", "r">>, v |-> [dname |-> <<"P", "o", "i", "n", "t", " ", "B", "o", "o", "s", "t", "e", "r">>, cost |-> 2000]],
      [k |-> <<"t", "a", "n", "g", "o">>, v |-> [dname |-> <<"T", "a", "n", "g", "o">>, cost |-> 90]]>>

FileContent(const) ==
    CASE const = "heroes" -> HeroesFile
      [] const = "item_ids" -> ItemIdsFile
      [] const = "items" -> ItemsFile
      [] OTHER -> <<[k |-> <<"1">>, v |-> const]>>

\* what the files turn out to be: all there, none there, none parsable, or
\* one of them missing or unparsable
FileStates ==
    {[c \in RefFiles |-> "ok"], [c \in RefFiles |-> "missing"],
     [c \in RefFiles |-> "unparsable"]}
    \cup {[c \in RefFiles |-> IF c = x THEN st ELSE "ok"] :
             x \in RefFiles, st \in {"missing", "unparsable"}}

\* a load_json that hands back None for a file it cannot read
LoadJsonRaises(status, content) ==
    IF status = "unparsable" THEN [raise |-> "JSONDecodeError"] ELSE [ok |-> content]

\* load_json: the parsed content, or {} when open() or json.load() raised
load_json(status, content) ==
    IF status = "unparsable" THEN [ok |-> <<>>] ELSE [ok |-> content]

\* one turn of the loop: {} without a look into a file that does not exist
LoadOne(status, content) ==
    IF status = "missing" THEN [ok |-> <<>>] ELSE load_json(status, content)

LoadStep(data, const, r) ==
    IF "raise" \in DOMAIN r THEN [data |-> data, raised |-> TRUE]
    ELSE [data |-> [data EXCEPT ![const] = r.ok], raised |-> FALSE]

RECURSIVE LoadFrom(_, _, _)
\* load_reference_data from the i-th file on: the categories as the loop
\* leaves them, and whether it was left by an exception
LoadFrom(d, files, i) ==
    IF d.raised \/ i > Len(LoadOrder) THEN d
    ELSE LoadFrom(LoadStep(d.data, LoadOrder[i],
                           LoadOne(files[LoadOrder[i]], FileContent(LoadOrder[i]))),
                  files, i + 1)

LoadEffect(d, files) ==
    /\ REFERENCE_DATA' = d.data
    /\ lifespan' = [phase |-> IF d.raised THEN "failed" ELSE "serving", files |-> files]

\* app_lifespan up to its yield: load_reference_data() gives every category
\* it loops over the file's content, or {} when the file is missing or does
\* not parse; then the tools are registered and the server serves.  An
\* exception on the way is logged and raised again: the server does not start
LoadReferenceData ==
    /\ lifespan.phase = "startup"
    /\ \E files \in FileStates :
         LoadEffect(LoadFrom([data |-> REFERENCE_DATA, raised |-> FALSE], files, 1), files)
    /\ UNCHANGED <<clock, rlVars, taskVars, clientVars, PLAYER_CACHE, cur>>

\* ------------------------------------------------------------------- tools

RECURSIVE ParseInt(_)
\* int(s) of a string of decimal digits
ParseInt(s) ==
    IF s = <<>> THEN 0
    ELSE 10 * ParseInt(SubSeq(s, 1, Len(s) - 1))
         + ((CHOOSE d \in DOMAIN Digits : Digits[d] = s[Len(s)]) - 1)

\* n / d rounded to the nearest integer (no tie occurs for the bodies used)
RoundDiv(n, d) == IF 2 * (n % d) >= d THEN (n \div d) + 1 ELSE n \div d

\* f"{win / total * 100:.2f}"
Fmt2f(win, total) ==
    LET h == RoundDiv(win * 10000, total)
    IN DecStr(h \div 100) \o <<".">> \o <<Digits[((h % 100) \div 10) + 1], Digits[(h % 10) + 1]>>

\* REFERENCE_DATA.get('heroes') is truthy
HeroesLocal == REFERENCE_DATA["heroes"] # <<>>

\* what a stretch of a tool ends in: a callee that suspends, a raise, a
\* return; Cont says the tool goes on from the frame c
NeedAcct(c, name) == [k |-> "acct", c |-> c, name |-> name]
NeedFetch(c, endpoint, params) == [k |-> "fetch", c |-> c, endpoint |-> endpoint, params |-> params]
Raises(c, e) == [k |-> "raise", c |-> c, e |-> e]
Returns(c, v) == [k |-> "return", c |-> c, v |-> v]
Cont(c) == [k |-> "cont", c |-> c]

\* the value an awaited callee handed back, if the stretch starts at one
NoValue == [has |-> FALSE]
Got(v) == [has |-> TRUE, v |-> v]

\* a resolve_hero that accepts an integer only when it is the id of a hero
ResolveHeroChecked(hero, have) ==
    IF hero = PyNone THEN [ok |-> PyNone]
    ELSE IF ~HeroesLocal /\ ~have.has THEN [need_heroes |-> TRUE]
    ELSE IF hero.t = "str"
    THEN ResolveHeroWith(IF HeroesLocal THEN DictValues(REFERENCE_DATA["heroes"])
                         ELSE have.v.v, hero)
    ELSE IF HeroesLocal /\ DictHas(REFERENCE_DATA["heroes"], DecStr(hero.v))
    THEN [ok |-> hero]
    ELSE [raise |-> Exc("ValueError", Msg("Hero not found", <<DecStr(hero.v), <<>>>>))]

\* resolve_hero(hero): None and ints pass; a name is looked up in the local
\* hero list or, when that is empty, in the list fetch_api("/heroes") returned
\* (have); need_heroes says the list has to be fetched first
ResolveHero(hero, have) ==
    IF hero = PyNone THEN [ok |-> PyNone]
    ELSE IF hero.t = "int" THEN [ok |-> hero]
    ELSE IF HeroesLocal \/ have.has
    THEN ResolveHeroWith(IF HeroesLocal THEN DictValues(REFERENCE_DATA["heroes"])
                         ELSE have.v.v, hero)
    ELSE [need_heroes |-> TRUE]

\* get_account_id(player_name) as a callee: the cached id, the id the search
\* handed back (have), or need_acct when the search has to be made
ResolvePlayer(player_name, have) ==
    IF have.has THEN [ok |-> have.v]
    ELSE IF StrLower(player_name.v) \in DOMAIN PLAYER_CACHE
    THEN [ok |-> PyStr(PLAYER_CACHE[StrLower(player_name.v)])]
    ELSE [need_acct |-> player_name.v]

AccountOf(r) == IF "ok" \in DOMAIN r THEN [ok |-> PyInt(ParseInt(r.ok.v))] ELSE r

\* one item of resolve_account_ids: ints pass; a name goes through
\* get_account_id and int()
ResolveAccount(account_id, have) ==
    IF account_id.t = "int" THEN [ok |-> account_id]
    ELSE AccountOf(ResolvePlayer(account_id, have))

\* the order in which get_player_win_loss resolves
WLStages ==
    <<"player_name", "lane_role", "hero_id", "included_account_id",
      "excluded_account_id", "with_hero_id", "against_hero_id", "fetch">>

NextStage(stage) == WLStages[(CHOOSE i \in DOMAIN WLStages : WLStages[i] = stage) + 1]

\* the locals of a tool that is at stage: res holds what is resolved so far,
\* acc and idx the list being resolved
AtStage(c, stage) == [c EXCEPT !.loc.stage = stage, !.loc.idx = 1, !.loc.acc = <<>>]
Resolved(c, key, v) == [c EXCEPT !.loc.res[key] = v]

\* the callee that has to be awaited before r is known
Suspend(c, r) ==
    IF "need_acct" \in DOMAIN r THEN NeedAcct(c, r.need_acct)
    ELSE NeedFetch(c, Endpoint("/heroes", <<>>), PyNone)

Needs(r) == "need_acct" \in DOMAIN r \/ "need_heroes" \in DOMAIN r

\* a lane or hero filter that could not be resolved is left out
AfterFilterLenient(c, r, stage, next) ==
    IF Needs(r) THEN Suspend(c, r)
    ELSE IF "raise" \in DOMAIN r
    THEN (IF stage \in {"player_name", "field"} THEN Raises(c, r.raise)
          ELSE Cont(AtStage(Resolved(c, stage, PyNone), next)))
    ELSE Cont(AtStage(Resolved(c, stage, r.ok), next))

\* the resolver of the filter at stage ended in r
AfterFilter(c, r, stage, next) ==
    IF Needs(r) THEN Suspend(c, r)
    ELSE IF "raise" \in DOMAIN r THEN Raises(c, r.raise)
    ELSE Cont(AtStage(Resolved(c, stage, r.ok), next))

\* the resolver of one item of a list filter ended in r
AfterItem(c, r) ==
    IF Needs(r) THEN Suspend(c, r)
    ELSE IF "raise" \in DOMAIN r THEN Raises(c, r.raise)
    ELSE Cont([c EXCEPT !.loc.idx = @ + 1, !.loc.acc = Append(@, r.ok)])

AfterHero(c, r, stage, next, inList) ==
    IF inList THEN AfterItem(c, r) ELSE AfterFilter(c, r, stage, next)

\* a params dict that drops every falsy value
ParamsTruthy(raw) ==
    [t |-> "dict",
     v |-> [k \in {x \in DOMAIN raw : raw[x] \notin {PyNone, PyInt(0), PyList(<<>>)}} |-> raw[k]]]

\* {k: v for k, v in {...}.items() if v is not None}
ParamsNotNone(raw) ==
    [t |-> "dict", v |-> [k \in {x \in DOMAIN raw : raw[x] # PyNone} |-> raw[k]]]

\* the dict get_player_win_loss filters into params
WLRaw(c) ==
    [limit |-> c.args.limit,
     offset |-> c.args.offset,
     lane_role |-> c.loc.res.lane_role,
     hero_id |-> c.loc.res.hero_id,
     included_account_id |-> c.loc.res.included_account_id,
     excluded_account_id |-> c.loc.res.excluded_account_id,
     with_hero_id |-> c.loc.res.with_hero_id,
     against_hero_id |-> c.loc.res.against_hero_id]

\* the lines after "wl_data = await fetch_api(...)"
WLResult(c, wl_data) ==
    IF "win" \notin DOMAIN wl_data
    THEN Raises(c, Exc("KeyError", Msg("win", <<>>)))
    ELSE IF "lose" \notin DOMAIN wl_data
    THEN Raises(c, Exc("KeyError", Msg("lose", <<>>)))
    ELSE Returns(c, [win |-> wl_data.win, lose |-> wl_data.lose,
                     win_rate |-> IF wl_data.win + wl_data.lose > 0
                                  THEN Fmt2f(wl_data.win, wl_data.win + wl_data.lose)
                                  ELSE <<"0", ".", "0">>])

\* resolve_account_ids / resolve_hero_list on the filter given: None stays
\* None, a single value is a list of one for the accounts
AccountItems(given) == IF given.t = "list" THEN given.v ELSE <<given>>
HeroGiven(given, idx) == IF given.t = "list" THEN given.v[idx] ELSE given

\* get_player_win_loss at the stage in c.loc: what it does up to the next
\* stage, to a callee that suspends, to its return or to the exception that
\* goes into its except clauses
WinLossStep(c, have) ==
    LET stage == c.loc.stage
        given == c.args[stage]
    IN CASE stage = "player_name" ->
              AfterFilter(c, ResolvePlayer(given, have), stage, NextStage(stage))
         [] stage = "lane_role" ->
              AfterFilter(c, resolve_lane(given), stage, NextStage(stage))
         [] stage \in {"included_account_id", "excluded_account_id"} ->
              IF given = PyNone
              THEN Cont(AtStage(Resolved(c, stage, PyNone), NextStage(stage)))
              ELSE IF c.loc.idx > Len(AccountItems(given))
              THEN Cont(AtStage(Resolved(c, stage, PyList(c.loc.acc)), NextStage(stage)))
              ELSE AfterItem(c, ResolveAccount(AccountItems(given)[c.loc.idx], have))
         [] stage \in {"hero_id", "with_hero_id", "against_hero_id"} ->
              IF given.t = "list" /\ c.loc.idx > Len(given.v)
              THEN Cont(AtStage(Resolved(c, stage, PyList(c.loc.acc)), NextStage(stage)))
              ELSE AfterHero(c, ResolveHero(HeroGiven(given, c.loc.idx), have),
                             stage, NextStage(stage), given.t = "list")
         [] OTHER ->
              IF have.has THEN WLResult(c, have.v)
              ELSE NeedFetch(c, Endpoint("/players/{}/wl", c.loc.res.player_name.v),
                             ParamsNotNone(WLRaw(c)))

\* ---- get_player_histograms

\* the dict get_player_histograms filters into params: the filters of
\* get_player_win_loss and having
HistRaw(c) ==
    [k \in DOMAIN WLRaw(c) \cup {"having"} |->
       IF k = "having" THEN c.args.having ELSE WLRaw(c)[k]]

\* the keys the loop reads of an element, in the order it reads them
HistKeys == <<"x", "games", "win">>

HistMissing(element) == SelectSeq(HistKeys, LAMBDA k : k \notin DOMAIN element)

\* one bucket of structured_result
HistBucket(element) ==
    [count |-> element.x, games_played |-> element.games, win |-> element.win,
     win_rate |-> IF element.games > 0 THEN Fmt2f(element.win, element.games)
                  ELSE <<"0", ".", "0">>]

\* the loop after "result = await fetch_api(...)"
HistResult(c, result) ==
    IF \E i \in DOMAIN result.v : HistMissing(result.v[i]) # <<>>
    THEN LET i == MinOf({j \in DOMAIN result.v : HistMissing(result.v[j]) # <<>>})
         IN Raises(c, Exc("KeyError", Msg(HistMissing(result.v[i])[1], <<>>)))
    ELSE Returns(c, PyList([i \in DOMAIN result.v |-> HistBucket(result.v[i])]))

\* get_player_histograms at the stage in c.loc: the account, then the field,
\* then the filters as get_player_win_loss resolves them, then the fetch
HistogramsStep(c, have) ==
    LET stage == c.loc.stage
        given == c.args[stage]
    IN CASE stage = "player_name" ->
              AfterFilter(c, ResolvePlayer(given, have), stage, "field")
         [] stage = "field" ->
              AfterFilter(c, resolve_stat_field(given), stage, "lane_role")
         [] stage = "fetch" ->
              IF have.has THEN HistResult(c, have.v)
              ELSE NeedFetch(c, Endpoint("/players/{}/histograms/{}",
                                         [account_id |-> c.loc.res.player_name.v,
                                          field |-> c.loc.res.field.v]),
                             ParamsNotNone(HistRaw(c)))
         [] OTHER -> WinLossStep(c, have)

\* get_hero_by_id_logic(hero_id): the entry of the local hero dict, or of the
\* list fetch_api("/heroes") returned (have), or the error dict
HeroById(hero_id, have) ==
    IF HeroesLocal
    THEN IF DictHas(REFERENCE_DATA["heroes"], DecStr(hero_id))
         THEN [ok |-> DictGet(REFERENCE_DATA["heroes"], DecStr(hero_id))]
         ELSE [ok |-> [error |-> Msg("Hero with ID not found in reference data", <<hero_id>>)]]
    ELSE IF have.has
    THEN IF \E i \in DOMAIN have.v.v : have.v.v[i].id = hero_id
         THEN [ok |-> have.v.v[MinOf({i \in DOMAIN have.v.v : have.v.v[i].id = hero_id})]]
         ELSE [ok |-> [error |-> Msg("Hero with ID not found", <<hero_id>>)]]
    ELSE [need_heroes |-> TRUE]

\* round(wins / games_played * 100, 2), in hundredths
Round2(wins, games_played) ==
    [t |-> "float", hundredths |-> RoundDiv(wins * 10000, games_played)]

\* the entry get_hero_matchups appends for item, hero_name being what
\* get_hero_by_id_logic returned
MatchupEntry(item, hero_name) ==
    [hero_name |-> IF "localized_name" \in DOMAIN hero_name
                   THEN PyStr(hero_name.localized_name) ELSE PyNone,
     games |-> item.games_played,
     win |-> item.wins,
     loss |-> item.games_played - item.wins,
     win_rate |-> IF item.games_played > 0 THEN Round2(item.wins, item.games_played)
                  ELSE PyInt(0)]

\* one turn of the loop over the matchups, r being what
\* get_hero_by_id_logic(item['hero_id']) ended in
MatchupItem(c, item, r) ==
    IF "hero_id" \notin DOMAIN item THEN Raises(c, Exc("KeyError", Msg("hero_id", <<>>)))
    ELSE IF Needs(r) THEN Suspend(c, r)
    ELSE IF "games_played" \notin DOMAIN item
    THEN Raises(c, Exc("KeyError", Msg("games_played", <<>>)))
    ELSE IF "wins" \notin DOMAIN item
    THEN Raises(c, Exc("KeyError", Msg("wins", <<>>)))
    ELSE Cont([c EXCEPT !.loc.idx = @ + 1,
                        !.loc.acc = Append(@, MatchupEntry(item, r.ok))])

\* get_hero_matchups at the stage in c.loc
MatchupsStep(c, have) ==
    CASE c.loc.stage = "hero_id" ->
           AfterFilter(c, ResolveHero(c.args.hero, have), "hero_id", "fetch")
      [] c.loc.stage = "fetch" ->
           IF have.has
           THEN Cont(AtStage([c EXCEPT !.loc.result = have.v], "items"))
           ELSE NeedFetch(c, Endpoint("/heroes/{}/matchups", StrOf(c.loc.res.hero_id)),
                          PyNone)
      [] OTHER ->
           IF c.loc.idx > Len(c.loc.result.v) THEN Returns(c, PyList(c.loc.acc))
           ELSE MatchupItem(c, c.loc.result.v[c.loc.idx],
                            HeroById(c.loc.result.v[c.loc.idx].hero_id, have))

\* ---- get_match_details

benchmark_fields ==
    <<"gold_per_min", "xp_per_min", "kills_per_min", "last_hits_per_min",
      "hero_damage_per_min", "tower_damage", "hero_healing_per_min">>

\* get_hero_by_id_logic(p.get("hero_id")): an id that is no number is the id
\* of no hero
HeroOfPlayer(hero_id, have) ==
    IF hero_id.t = "int" THEN HeroById(hero_id.v, have)
    ELSE IF HeroesLocal \/ have.has
    THEN [ok |-> [error |-> Msg("Hero with ID not found", <<hero_id.t>>)]]
    ELSE [need_heroes |-> TRUE]

\* (...).get("localized_name")
LocalizedName(hero) ==
    IF "localized_name" \in DOMAIN hero THEN PyStr(hero.localized_name) ELSE PyNone

RECURSIVE SumValues(_)
\* sum(d.values()) of a dict of numbers, given as its items
SumValues(items) == IF items = <<>> THEN 0 ELSE Head(items).v.v + SumValues(Tail(items))

\* (pct or 0) * 100
Pct100(pct) ==
    IF ~Truthy(pct) THEN PyInt(0)
    ELSE IF pct.t = "float" THEN PyFloat(pct.hundredths * 100)
    ELSE PyInt(pct.v * 100)

BenchmarkOf(benchmarks, field) ==
    [raw |-> JGetOr(JGetOr(benchmarks, field, PyDict(<<>>)), "raw", PyNone),
     pct |-> Pct100(JGetOr(JGetOr(benchmarks, field, PyDict(<<>>)), "pct", PyNone))]

\* the dict comprehension over benchmark_fields
Benchmarks(p) ==
    [i \in DOMAIN benchmark_fields |->
       [k |-> benchmark_fields[i],
        v |-> BenchmarkOf(JGetOr(p, "benchmarks", PyDict(<<>>)), benchmark_fields[i])]]

\* .get() or .values() is called on a value that is no dict
NoDictIn(p, parsed) ==
    \/ parsed /\ JGetOr(p, "damage_taken", PyDict(<<>>)).t # "dict"
    \/ JGetOr(p, "benchmarks", PyDict(<<>>)).t # "dict"
    \/ /\ JGetOr(p, "benchmarks", PyDict(<<>>)).t = "dict"
       /\ \E i \in DOMAIN benchmark_fields :
            JGetOr(JGetOr(p, "benchmarks", PyDict(<<>>)), benchmark_fields[i],
                   PyDict(<<>>)).t # "dict"

Copied(p, keys) == [k \in keys |-> JGetOr(p, k, PyNone)]

\* the player_dict of build_player_list
ParsedPlayer(p, items_data, hero) ==
    [copied |-> Copied(p, {"account_id", "player_slot", "hero_id", "personaname", "kills",
                           "deaths", "assists", "gold_per_min", "xp_per_min", "net_worth",
                           "hero_damage", "tower_damage", "hero_healing",
                           "teamfight_participation", "obs_placed", "sen_placed", "stuns",
                           "last_hits", "denies"}),
     hero_name |-> LocalizedName(hero),
     team |-> IF JGetOr(p, "player_slot", PyInt(0)).v < 128 THEN "radiant" ELSE "dire",
     damage_taken |-> SumValues(JGetOr(p, "damage_taken", PyDict(<<>>)).v),
     items |-> items_data,
     benchmarks |-> Benchmarks(p)]

\* the player_dict of the branch for a match that is not parsed
UnparsedPlayer(p, items_data, hero) ==
    [copied |-> Copied(p, {"account_id", "personaname", "kills", "deaths", "assists",
                           "last_hits", "denies", "gold_per_min", "xp_per_min", "net_worth",
                           "hero_damage", "tower_damage", "hero_healing"}),
     hero_name |-> LocalizedName(hero),
     team_name |-> IF JGetOr(p, "team_number", PyNone) = PyInt(0) THEN "Radiant" ELSE "Dire",
     items |-> items_data,
     benchmarks |-> Benchmarks(p)]

\* one turn of either loop over the players: the items, then the hero (r is
\* what get_hero_by_id_logic ended in), then the rest of the dict
PlayerTurn(c, p, parsed, items_data, r) ==
    IF "raise" \in DOMAIN items_data THEN Raises(c, items_data.raise)
    ELSE IF Needs(r) THEN Suspend(c, r)
    ELSE IF NoDictIn(p, parsed)
    THEN Raises(c, Exc("AttributeError", Msg("object has no attribute", <<>>)))
    ELSE Cont([c EXCEPT !.loc.idx = @ + 1,
                        !.loc.acc = Append(@, IF parsed
                                              THEN ParsedPlayer(p, items_data.ok, r.ok)
                                              ELSE UnparsedPlayer(p, items_data.ok, r.ok))])

\* 'teamfights' in response or 'objectives' in response or 'radiant_gold_adv' in response
is_parsed(response) ==
    JHas(response, "teamfights") \/ JHas(response, "objectives")
      \/ JHas(response, "radiant_gold_adv")

\* build_teamfight_list(raw_teamfights, raw_players): one formatted entry
\* for each teamfight
build_teamfight_list(raw_teamfights, raw_players) ==
    [i \in DOMAIN raw_teamfights.v |-> raw_teamfights.v[i]]

\* build_player_list returns the list result; player_data['players'] on a
\* list is a TypeError
PlayerData(result) ==
    [raise |-> Exc("TypeError", Msg("list indices must be integers or slices, not str", <<>>))]

\* the dict get_match_details returns for a parsed match
ParsedResult(c, sections, formatted_teamfights, player_data) ==
    IF "raise" \in DOMAIN player_data THEN Raises(c, player_data.raise)
    ELSE Returns(c, [parsed |-> TRUE,
                     metadata |-> JGetOr(sections, "metadata", PyDict(<<>>)),
                     teamfights_summary |-> [count |-> Len(formatted_teamfights),
                                             teamfights |-> formatted_teamfights],
                     objectives |-> JGetOr(sections, "objectives", PyList(<<>>)),
                     chat |-> JGetOr(sections, "chat", PyList(<<>>)),
                     picks_bans |-> JGetOr(sections, "picks_bans", PyList(<<>>)),
                     players_summary |-> [count |-> Len(player_data.ok.players),
                                          players |-> player_data.ok.players],
                     gold_advantage |-> JGetOr(sections, "radiant_gold_adv", PyList(<<>>)),
                     xp_advantage |-> JGetOr(sections, "radiant_xp_adv", PyList(<<>>)),
                     gold_timings_per_hero |-> player_data.ok.gold_timings_per_hero,
                     xp_timings_per_hero |-> player_data.ok.xp_timings_per_hero])

\* the dict it returns for a match that is not parsed
UnparsedResult(c, response) ==
    IF JGetOr(response, "duration", PyInt(0)).t # "int"
    THEN Raises(c, Exc("TypeError", Msg("unsupported operand type(s) for //", <<>>)))
    ELSE Returns(c, [parsed |-> FALSE,
                     data |-> [players |-> c.loc.acc,
                               radiant_win |-> JGetOr(response, "radiant_win", PyNone),
                               duration |-> format_time(JGetOr(response, "duration", PyInt(0)).v),
                               match_id |-> JGetOr(response, "match_id", PyNone)]])

\* after the players loop
MatchResult(c, response, parsed) ==
    IF parsed
    THEN ParsedResult(c, c.loc.res.sections,
                      build_teamfight_list(JGetOr(response, "teamfights", PyList(<<>>)),
                                           JGetOr(response, "players", PyList(<<>>))),
                      PlayerData(c.loc.acc))
    ELSE UnparsedResult(c, response)

\* from the response of fetch_api to the first player: the sections of a
\* parsed match, the players to go through
MatchStart(c, response, sections) ==
    IF ~is_parsed(response)
    THEN Cont(AtStage([c EXCEPT !.loc.result = response,
                                !.loc.res = [players |-> JGetOr(response, "players", PyList(<<>>)),
                                             sections |-> PyNone]],
                      "players"))
    ELSE IF "raise" \in DOMAIN sections THEN Raises(c, sections.raise)
    ELSE Cont(AtStage([c EXCEPT !.loc.result = response,
                                !.loc.res = [players |-> JGetOr(sections.ok, "players", PyList(<<>>)),
                                             sections |-> sections.ok]],
                      "players"))

\* get_match_details at the stage in c.loc
MatchDetailsStep(c, have) ==
    CASE c.loc.stage = "fetch" ->
           IF have.has THEN MatchStart(c, have.v, extract_match_sections(have.v))
           ELSE NeedFetch(c, Endpoint("/matches/{}", DecStr(c.args.match_id.v)), PyNone)
      [] OTHER ->
           IF c.loc.res.players.t # "list"
           THEN Raises(c, Exc("TypeError", Msg("object is not iterable", <<>>)))
           ELSE IF c.loc.idx > Len(c.loc.res.players.v)
           THEN MatchResult(c, c.loc.result, is_parsed(c.loc.result))
           ELSE PlayerTurn(c, c.loc.res.players.v[c.loc.idx], is_parsed(c.loc.result),
                           process_player_items(c.loc.res.players.v[c.loc.idx]),
                           HeroOfPlayer(JGetOr(c.loc.res.players.v[c.loc.idx], "hero_id", PyNone),
                                        have))

HeroIdResult(c, result) ==
    IF "raise" \in DOMAIN result THEN Raises(c, result.raise) ELSE Returns(c, result)

\* the tool get_hero_id_by_name: "return await get_hero_id_by_name_logic(hero_name)"
HeroIdStep(c, have) ==
    IF ~HeroesLocal /\ ~have.has
    THEN NeedFetch(c, Endpoint("/heroes", <<>>), PyNone)
    ELSE HeroIdResult(c, HeroIdByName(IF HeroesLocal
                                      THEN DictValues(REFERENCE_DATA["heroes"])
                                      ELSE have.v.v,
                                      c.args.hero_name.v))

\* a resolver that was called on its own ended in r
AfterResolver(c, r) ==
    IF Needs(r) THEN Suspend(c, r)
    ELSE IF "raise" \in DOMAIN r THEN Raises(c, r.raise)
    ELSE Returns(c, r.ok)

\* resolve_hero, resolve_lane and, from the hero list on, the matcher
\* get_hero_id_by_name_logic, each called on its own
ResolveHeroStep(c, have) == AfterResolver(c, ResolveHero(c.args.hero, have))
ResolveLaneStep(c) == AfterResolver(c, resolve_lane(c.args.lane))
HeroMatcherStep(c) == HeroIdResult(c, HeroIdByName(c.args.heroes.v, c.args.hero_name.v))
ResolveItemStep(c) == AfterResolver(c, resolve_item_to_internal_name(c.args.item_input))
ResolveStatFieldStep(c) == AfterResolver(c, resolve_stat_field(c.args.field))
ExtractStep(c) == AfterResolver(c, extract_match_sections(c.args.data))
PlayerItemsStep(c) == AfterResolver(c, process_player_items(c.args.player))

ToolOne(c, have) ==
    CASE c.op = "get_player_win_loss" -> WinLossStep(c, have)
      [] c.op = "get_player_histograms" -> HistogramsStep(c, have)
      [] c.op = "get_hero_matchups" -> MatchupsStep(c, have)
      [] c.op = "resolve_hero" -> ResolveHeroStep(c, have)
      [] c.op = "resolve_lane" -> ResolveLaneStep(c)
      [] c.op = "get_hero_id_by_name_logic" -> HeroMatcherStep(c)
      [] c.op = "resolve_item_to_internal_name" -> ResolveItemStep(c)
      [] c.op = "resolve_stat_field" -> ResolveStatFieldStep(c)
      [] c.op = "get_match_details" -> MatchDetailsStep(c, have)
      [] c.op = "extract_match_sections" -> ExtractStep(c)
      [] c.op = "process_player_items" -> PlayerItemsStep(c)
      [] OTHER -> HeroIdStep(c, have)

RECURSIVE ToolDrive(_)
\* the tool goes on, stage after stage, until it suspends or ends
ToolDrive(d) == IF d.k = "cont" THEN ToolDrive(ToolOne(d.c, NoValue)) ELSE d

ToolRun(c, have) == ToolDrive(ToolOne(c, have))

\* what the stretch d of a tool does to the state
ToolEffect(t, d) ==
    CASE d.k = "acct" -> AcctEntry(t, d.c, <<"tool_resume">>, d.name)
      [] d.k = "fetch" -> FetchEntry(t, d.c, <<"tool_resume">>, d.endpoint, d.params)
      [] d.k = "raise" ->
           /\ Raise(t, d.c, d.e)
           /\ UNCHANGED <<rlVars, http_client, nClients, acloseCalls>>
      [] OTHER ->
           /\ Finish(t, d.c, "ok", d.v)
           /\ UNCHANGED <<rlVars, http_client, nClients, acloseCalls>>

\* one uninterrupted stretch of a tool: from its call, or from the return of
\* the callee it awaited, to the next callee that suspends or to its end
ToolStep(t, c, have) == ToolEffect(t, ToolRun(c, have))

\* the frame of a tool call
NewToolCall(o, a, stage, res) ==
    [NewCall(o, a) EXCEPT !.loc = [stage |-> stage, idx |-> 1, acc |-> <<>>,
                                   res |-> res, result |-> PyNone]]

WLArgs(player_name, limit, offset, lane_role, hero_id, included_account_id, excluded_account_id, with_hero_id, against_hero_id) ==
    [player_name |-> player_name, limit |-> limit, offset |-> offset,
     lane_role |-> lane_role, hero_id |-> hero_id,
     included_account_id |-> included_account_id,
     excluded_account_id |-> excluded_account_id,
     with_hero_id |-> with_hero_id, against_hero_id |-> against_hero_id]

\* the get_player_win_loss calls made: a cached nickname with a hero name and
\* a lane string; every filter given and resolvable without a search; a
\* teammate who is not cached; a with-hero nobody knows; a player who is not
\* cached; a lane number out of range; a teammate who is not cached before a
\* with-hero nobody knows; a lane name nobody knows
WinLossCalls ==
    { WLArgs(PyStr(<<"X", "i", "n", "o", "b", "i", "l", "l", "i", "e">>), PyNone, PyNone, PyStr(<<" ", "M", "i", "d", " ">>), PyStr(<<"a", "n", "t", "i", " ", "m", "a", "g", "e">>), PyNone, PyNone, PyNone, PyNone),
      WLArgs(PyStr(<<"X", "i", "n", "o", "b", "i", "l", "l", "i", "e">>), PyInt(0), PyInt(5), PyStr(<<"c", "a", "r", "r", "y">>), PyStr(<<"R", "u", "b", "i", "c", "k">>), PyStr(<<"s", "p", "e", "c", "i", "a", "l", " ", "o", "n", "e">>),
             PyList(<<PyInt(123)>>), PyList(<<PyInt(86), PyStr(<<"a", "x", "e">>)>>), PyStr(<<"R", "u", "b", "i", "c", "k">>)),
      WLArgs(PyStr(<<"X", "i", "n", "o", "b", "i", "l", "l", "i", "e">>), PyNone, PyNone, PyStr(<<" ", "M", "i", "d", " ">>), PyStr(<<"a", "n", "t", "i", " ", "m", "a", "g", "e">>), PyStr(<<"g", "h", "o", "s", "t">>), PyNone, PyNone, PyNone),
      WLArgs(PyStr(<<"X", "i", "n", "o", "b", "i", "l", "l", "i", "e">>), PyNone, PyNone, PyStr(<<" ", "M", "i", "d", " ">>), PyStr(<<"a", "n", "t", "i", " ", "m", "a", "g", "e">>), PyNone, PyNone, PyStr(<<"z", "z", "z">>), PyNone),
      WLArgs(PyStr(<<"g", "h", "o", "s", "t">>), PyNone, PyNone, PyNone, PyNone, PyNone, PyNone, PyNone, PyNone),
      WLArgs(PyStr(<<"X", "i", "n", "o", "b", "i", "l", "l", "i", "e">>), PyNone, PyNone, PyInt(7), PyInt(86), PyNone, PyNone, PyNone, PyNone),
      WLArgs(PyStr(<<"X", "i", "n", "o", "b", "i", "l", "l", "i", "e">>), PyNone, PyNone, PyNone, PyNone, PyStr(<<"g", "h", "o", "s", "t">>), PyNone, PyStr(<<"z", "z", "z">>), PyNone),
      WLArgs(PyStr(<<"X", "i", "n", "o", "b", "i", "l", "l", "i", "e">>), PyNone, PyNone, PyStr(<<"j", "u", "n", "g", "l", "e", "r">>), PyNone, PyNone, PyNone, PyNone, PyNone) }

CallGetPlayerWinLoss(t) ==
    /\ pc[t] = "idle"
    /\ lifespan.phase = "serving"
    /\ calls < MaxToolCalls
    /\ calls' = calls + 1
    /\ \E a \in WinLossCalls :
         ToolStep(t, NewToolCall("get_player_win_loss", a, "player_name",
                                 [k \in {"player_name", "lane_role", "hero_id",
                                         "included_account_id", "excluded_account_id",
                                         "with_hero_id", "against_hero_id"} |-> PyNone]),
                  NoValue)
    /\ UNCHANGED <<clock, everCleaned, PLAYER_CACHE, refVars>>

\* get_player_histograms is get_player_win_loss with a field and having
HistArgs(field, having, a) ==
    [k \in DOMAIN a \cup {"field", "having"} |->
       IF k = "field" THEN field ELSE IF k = "having" THEN having ELSE a[k]]

Cached == PyStr(<<"X", "i", "n", "o", "b", "i", "l", "l", "i", "e">>)

\* the get_player_histograms calls made: a field and a hero that resolve; a
\* field nobody knows; no field; a known field with a hero nobody knows; a
\* known field and a lane number out of range
HistogramsCalls ==
    { HistArgs(PyStr(<<"G", "P", "M">>), PyInt(0),
               WLArgs(Cached, PyNone, PyNone, PyNone, PyStr(<<"a", "x", "e">>), PyNone, PyNone, PyNone, PyNone)),
      HistArgs(PyStr(<<"q", "q", "q", "q">>), PyNone,
               WLArgs(Cached, PyNone, PyNone, PyStr(<<"m", "i", "d">>), PyNone, PyNone, PyNone, PyNone, PyNone)),
      HistArgs(PyStr(<<>>), PyNone,
               WLArgs(Cached, PyNone, PyNone, PyNone, PyNone, PyNone, PyNone, PyNone, PyNone)),
      HistArgs(PyStr(<<"k", "i", "l", "l", "s">>), PyNone,
               WLArgs(Cached, PyNone, PyNone, PyNone, PyNone, PyNone, PyNone, PyNone, PyStr(<<"z", "z", "z">>))),
      HistArgs(PyStr(<<"k", "i", "l", "l", "s">>), PyNone,
               WLArgs(Cached, PyNone, PyNone, PyInt(0), PyNone, PyNone, PyNone, PyNone, PyNone)) }

CallGetPlayerHistograms(t) ==
    /\ pc[t] = "idle"
    /\ lifespan.phase = "serving"
    /\ calls < MaxToolCalls
    /\ calls' = calls + 1
    /\ \E a \in HistogramsCalls :
         ToolStep(t, NewToolCall("get_player_histograms", a, "player_name",
                                 [k \in {"player_name", "field", "lane_role", "hero_id",
                                         "included_account_id", "excluded_account_id",
                                         "with_hero_id", "against_hero_id"} |-> PyNone]),
                  NoValue)
    /\ UNCHANGED <<clock, everCleaned, PLAYER_CACHE, refVars>>

\* the heroes asked for: an id, a misspelt name, a name nobody knows
MatchupsCalls == {PyInt(86), PyStr(<<"r", "u", "b", "i", "k">>), PyStr(<<"z", "z", "z">>)}

CallGetHeroMatchups(t) ==
    /\ pc[t] = "idle"
    /\ lifespan.phase = "serving"
    /\ calls < MaxToolCalls
    /\ calls' = calls + 1
    /\ \E hero \in MatchupsCalls :
         ToolStep(t, NewToolCall("get_hero_matchups", [hero |-> hero], "hero_id",
                                 [hero_id |-> PyNone]),
                  NoValue)
    /\ UNCHANGED <<clock, everCleaned, PLAYER_CACHE, refVars>>

HeroIdCalls == {PyStr(<<"A", "n", "t", "i", "-", "M", "a", "g", "e">>), PyStr(<<"z", "z", "z">>)}

CallGetHeroIdByName(t) ==
    /\ pc[t] = "idle"
    /\ lifespan.phase = "serving"
    /\ calls < MaxToolCalls
    /\ calls' = calls + 1
    /\ \E hero_name \in HeroIdCalls :
         ToolStep(t, NewToolCall("get_hero_id_by_name", [hero_name |-> hero_name], "logic",
                                 PyNone),
                  NoValue)
    /\ UNCHANGED <<clock, everCleaned, PLAYER_CACHE, refVars>>

\* the callee a tool awaited has returned
ToolResume(t) ==
    /\ pc[t] = "tool_resume"
    /\ ToolStep(t, cur[t], Got(cur[t].val))
    /\ UNCHANGED <<clock, calls, everCleaned, PLAYER_CACHE, refVars>>

\* the tools are called one after the other by one task; with a single
\* caller the limiter's lock is free whenever acquire() asks for it
ToolTasks == {1}

NextTools ==
    \/ LoadReferenceData
    \/ \E t \in ToolTasks : CallGetPlayerWinLoss(t)
    \/ \E t \in ToolTasks : CallGetPlayerHistograms(t)
    \/ \E t \in ToolTasks : CallGetHeroMatchups(t)
    \/ \E t \in ToolTasks : CallGetHeroIdByName(t)
    \/ \E t \in ToolTasks : ToolResume(t)
    \/ \E t \in ToolTasks : FetchGet(t)
    \/ \E t \in ToolTasks : FetchReply(t)
    \/ \E t \in ToolTasks : AcctGet(t)
    \/ \E t \in ToolTasks : AcctReply(t)
    \/ \E t \in ToolTasks : Collect(t)
    \/ \E t \in ToolTasks : Wake(t)
    \/ Tick

SpecTools == Init /\ [][NextTools]_vars

\* ------------------------------------------ the resolvers, called on their own

\* resolve_hero is asked for nothing, for integers (hero ids and others) and
\* for names in several spellings
HeroInputs ==
    {PyNone, PyInt(86), PyInt(99999), PyInt(0), PyInt(0 - 5),
     PyStr(<<"A", "n", "t", "i", "-", "M", "a", "g", "e">>),
     PyStr(<<"a", "n", "t", "i", "m", "a", "g", "e">>),
     PyStr(<<"A", "N", "T", "I", " ", "M", "A", "G", "E">>),
     PyStr(<<"a", "n", "t", "i", "'", "m", "a", "g", "e">>),
     PyStr(<<"R", "u", "b", "i", "c", "k">>),
     PyStr(<<"r", "u", "b", "i", "k">>),
     PyStr(<<"R", "U", "B", "I", "K">>),
     PyStr(<<"r", "u", "-", "b", "i", "k">>),
     PyStr(<<"R", "U", "B", "I", "C", "K">>),
     PyStr(<<"a", "x", "e">>),
     PyStr(<<"A", " ", "x", "-", "e">>),
     PyStr(<<"z", "z", "z">>)}

CallResolveHero(t) ==
    /\ pc[t] = "idle"
    /\ lifespan.phase = "serving"
    /\ calls < MaxResolveCalls
    /\ calls' = calls + 1
    /\ \E hero \in HeroInputs :
         ToolStep(t, NewToolCall("resolve_hero", [hero |-> hero], "resolve", PyNone), NoValue)
    /\ UNCHANGED <<clock, everCleaned, PLAYER_CACHE, refVars>>

\* a hero list with near-equal names: several names as close to an input as
\* each other, more than three close ones, more than five distant ones
NearHeroes ==
    <<[id |-> 10, localized_name |-> <<"A", "b", "c", "d", "x">>],
      [id |-> 11, localized_name |-> <<"A", "b", "c", "d", "y">>],
      [id |-> 12, localized_name |-> <<"A", "b", "c", "d", "z">>],
      [id |-> 13, localized_name |-> <<"A", "b", "c", "d", "w">>],
      [id |-> 14, localized_name |-> <<"A", "b", "c", "x", "y">>],
      [id |-> 15, localized_name |-> <<"A", "b", "c", "x", "z">>],
      [id |-> 16, localized_name |-> <<"A", "b", "c", "y", "z">>],
      [id |-> 17, localized_name |-> <<"A", "b", "c", "z", "z">>],
      [id |-> 18, localized_name |-> <<"A", "b", "c", "q">>],
      [id |-> 19, localized_name |-> <<"A", "b", "c", "d", "x", "y">>]>>

\* the hero lists the matcher works on: the list of the API, the near-equal
\* names, an empty list, a list whose entry has no name
MatcherCatalogs == {HeroesList, NearHeroes, <<>>, <<[id |-> 7]>>}

MatcherNames ==
    {<<"a", "b", "c", "d", "e">>,
     <<"a", "b", "c", "d", "x">>,
     <<"a", "b", "c", "d">>,
     <<"a", "b", "c", "x", "x">>,
     <<"a", "b", "c">>,
     <<"a", "b">>,
     <<"a", "b", "c", "d", "x", "x">>,
     <<"a", "b", "c", "d", "z", "z">>,
     <<"a", "b", "c", "y", "y">>,
     <<"a", "b", "c", "d", "x", "y", "z">>,
     <<"z", "z", "z">>,
     <<"A", "n", "t", "i", " ", "M", "a", "g", "e">>,
     <<"r", "u", "b", "i", "k">>,
     <<"a", "x">>,
     <<"A", "B", "C", "-", "D", "E">>,
     <<"a", "'", "b", " ", "c", "-", "D">>}

\* get_hero_id_by_name_logic from "hero_name_normalized = ..." on, heroes being
\* the list it took from REFERENCE_DATA or from the API
CallHeroMatcher(t) ==
    /\ pc[t] = "idle"
    /\ lifespan.phase = "serving"
    /\ calls < MaxResolveCalls
    /\ calls' = calls + 1
    /\ \E heroes \in MatcherCatalogs, hero_name \in MatcherNames :
         ToolStep(t, NewToolCall("get_hero_id_by_name_logic",
                                 [heroes |-> PyList(heroes), hero_name |-> PyStr(hero_name)],
                                 "resolve", PyNone),
                  NoValue)
    /\ UNCHANGED <<clock, everCleaned, PLAYER_CACHE, refVars>>

LaneInputs ==
    {PyNone} \cup {PyInt(n) : n \in (0 - 1)..6}
    \cup {PyStr(<<"m", "i", "d">>),
          PyStr(<<" ", "M", "i", "d", " ">>),
          PyStr(<<"M", "I", "D">>),
          PyStr(<<"p", "o", "s", "i", "t", "i", "o", "n", " ", "2">>),
          PyStr(<<"2">>),
          PyStr(<<"p", "o", "s", " ", "4">>),
          PyStr(<<"s", "o", "f", "t", " ", "s", "u", "p", "p", "o", "r", "t">>),
          PyStr(<<"s", "o", "t", " ", "s", "u", "p", "p", "o", "r", "t">>),
          PyStr(<<"s", "o", "f", "t", "s", "u", "p">>),
          PyStr(<<"S", "o", "f", "t", " ", "S", "u", "p">>),
          PyStr(<<"p", "o", "s", "i", "t", "i", "o", "n", " ", "4">>),
          PyStr(<<"4">>),
          PyStr(<<"h", "a", "r", "d", " ", "s", "u", "p", "p", "o", "r", "t">>),
          PyStr(<<"p", "o", "s", " ", "5">>),
          PyStr(<<"P", "o", "s", "i", "t", "i", "o", "n", " ", "5">>),
          PyStr(<<"5">>),
          PyStr(<<"h", "a", "r", "d", "s", "u", "p">>),
          PyStr(<<"c", "a", "r", "r", "y">>),
          PyStr(<<"s", "a", "f", "e", " ", "l", "a", "n", "e">>),
          PyStr(<<"o", "f", "f", "l", "a", "n", "e">>),
          PyStr(<<"h", "a", "r", "d", " ", "l", "a", "n", "e">>),
          PyStr(<<"3">>),
          PyStr(<<"j", "u", "n", "g", "l", "e">>),
          PyStr(<<"r", "o", "a", "m">>),
          PyStr(<<"p", "o", "s", " ", "6">>),
          PyStr(<<>>),
          PyStr(<<" ", " ">>),
          PyStr(<<"m", "i", "d", "-", "l", "a", "n", "e">>),
          PyStr(<<"0">>),
          PyStr(<<"1">>)}

CallResolveLane(t) ==
    /\ pc[t] = "idle"
    /\ lifespan.phase = "serving"
    /\ calls < MaxResolveCalls
    /\ calls' = calls + 1
    /\ \E lane \in LaneInputs :
         ToolStep(t, NewToolCall("resolve_lane", [lane |-> lane], "resolve", PyNone), NoValue)
    /\ UNCHANGED <<clock, everCleaned, PLAYER_CACHE, refVars>>

\* item names: aliases of the table, internal names, display names, unknown
ItemInputs ==
    {PyNone,
     PyStr(<<"b", "f", "u", "r", "y">>),
     PyStr(<<"b", "a", "t", "t", "l", "e", " ", "f", "u", "r", "y">>),
     PyStr(<<"B", "a", "t", "t", "l", "e", "-", "F", "u", "r", "y">>),
     PyStr(<<"b", "k", "b">>),
     PyStr(<<"B", "K", "B">>),
     PyStr(<<"a", "g", "h", "a", "n", "i", "m">>),
     PyStr(<<"d", "i", "f", "f", "u", "s", "a", "l">>),
     PyStr(<<"D", "i", "f", "f", "u", "s", "a", "l", " ", "B", "l", "a", "d", "e">>),
     PyStr(<<"b", "l", "i", "n", "k", " ", "d", "a", "g", "g", "e", "r">>),
     PyStr(<<"b", "a", "t", "t", "l", "e", "_", "f", "u", "r", "y">>),
     PyStr(<<"z", "z", "z">>),
     PyStr(<<>>)}

CallResolveItem(t) ==
    /\ pc[t] = "idle"
    /\ lifespan.phase = "serving"
    /\ calls < MaxResolveCalls
    /\ calls' = calls + 1
    /\ \E item_input \in ItemInputs :
         ToolStep(t, NewToolCall("resolve_item_to_internal_name",
                                 [item_input |-> item_input], "resolve", PyNone),
                  NoValue)
    /\ UNCHANGED <<clock, everCleaned, PLAYER_CACHE, refVars>>

\* stat fields: synonyms in their three spellings, near misses, unknown, empty
StatInputs ==
    {PyNone,
     PyStr(<<>>),
     PyStr(<<"g", "p", "m">>),
     PyStr(<<"G", "P", "M">>),
     PyStr(<<" ", "G", "p", "m", " ">>),
     PyStr(<<"g", "o", "l", "d", " ", "p", "e", "r", " ", "m", "i", "n">>),
     PyStr(<<"G", "o", "l", "d", "-", "P", "e", "r", "-", "M", "i", "n">>),
     PyStr(<<"g", "o", "l", "d", "_", "p", "e", "r", "_", "m", "i", "n">>),
     PyStr(<<"g", " ", "p", " ", "m">>),
     PyStr(<<"c", " ", "s">>),
     PyStr(<<"c", "r", "e", "e", "p", " ", "s", "c", "o", "r", "e">>),
     PyStr(<<"C", "r", "e", "e", "p", "_", "S", "c", "o", "r", "e">>),
     PyStr(<<"m", "a", "t", "c", "h", " ", "d", "u", "r", "a", "t", "i", "o", "n">>),
     PyStr(<<"m", "a", "t", "c", "h", " ", "l", "e", "n", "g", "t", "h">>),
     PyStr(<<"h", "e", "r", "o", " ", "d", "a", "m", "a", "g", "e">>),
     PyStr(<<"k", "i", "l">>),
     PyStr(<<"k", "i", "l", "l">>),
     PyStr(<<"d", "e", "t", "h">>),
     PyStr(<<"g", "o", "l", "d", " ", "p", "e", "r", " ", "m", "i">>),
     PyStr(<<"x", "p", " ", "p", "e", "r", " ", "m", "i", "n", "u", "t", "e">>),
     PyStr(<<"a", "s", "i", "s", "t", "s">>),
     PyStr(<<"d", "e", "n", "i", "e">>),
     PyStr(<<"h", "e", "a", "l", "i", "n">>),
     PyStr(<<"z", "z", "z">>),
     PyStr(<<" ">>),
     PyStr(<<"a", "p", "m">>),
     PyStr(<<"l", "a", "s", "t", "-", "h", "i", "t", "s">>),
     PyStr(<<"m", "a", "t", "c", "h", "_", "d", "u", "r", "a", "t", "i", "o", "n", "s">>),
     PyStr(<<"k", "i", "l", "l", "s">>)}

CallResolveStatField(t) ==
    /\ pc[t] = "idle"
    /\ lifespan.phase = "serving"
    /\ calls < MaxResolveCalls
    /\ calls' = calls + 1
    /\ \E field \in StatInputs :
         ToolStep(t, NewToolCall("resolve_stat_field", [field |-> field], "resolve", PyNone),
                  NoValue)
    /\ UNCHANGED <<clock, everCleaned, PLAYER_CACHE, refVars>>

\* one resolver call at a time; none needs more than one admission, so no
\* caller ever sleeps in acquire() and the clock plays no part
NextResolve ==
    \/ LoadReferenceData
    \/ \E t \in ToolTasks : CallResolveHero(t)
    \/ \E t \in ToolTasks : CallHeroMatcher(t)
    \/ \E t \in ToolTasks : CallResolveLane(t)
    \/ \E t \in ToolTasks : CallResolveItem(t)
    \/ \E t \in ToolTasks : CallResolveStatField(t)
    \/ \E t \in ToolTasks : ToolResume(t)
    \/ \E t \in ToolTasks : FetchGet(t)
    \/ \E t \in ToolTasks : FetchReply(t)
    \/ \E t \in ToolTasks : Collect(t)

SpecResolve == Init /\ [][NextResolve]_vars

\* --------------------------------------------- the match shapers and tool

\* a match with sections, scalars and word counts, and one without sections
WholeMatch ==
    PyDict(<<[k |-> "match_id", v |-> PyInt(7)], [k |-> "duration", v |-> PyInt(1800)], [k |-> "players", v |-> PyList(<<PlayerB>>)], [k |-> "teamfights", v |-> PyList(<<Fight>>)], [k |-> "all_word_counts", v |-> PyDict(<<[k |-> "gg", v |-> PyInt(2)]>>)], [k |-> "my_word_counts", v |-> PyList(<<>>)], [k |-> "patch", v |-> PyNone], [k |-> "radiant_win", v |-> PyBool(TRUE)], [k |-> "cosmetics", v |-> PyDict(<<>>)]>>)

BareMatch ==
    PyDict(<<[k |-> "match_id", v |-> PyInt(8)], [k |-> "players", v |-> PyList(<<>>)], [k |-> "region", v |-> PyStr(<<"e", "u">>)]>>)

\* what extract_match_sections is given: a match, a match in either
\* wrapper, both wrappers at once, a 'result' that is no object, objects
\* that hold no match, values that are no object
ExtractInputs ==
    {
     WholeMatch,
     BareMatch,
     PyDict(<<[k |-> "result", v |-> PyDict(<<[k |-> "structuredContent", v |-> WholeMatch]>>)]>>),
     PyDict(<<[k |-> "structuredContent", v |-> BareMatch]>>),
     PyDict(<<[k |-> "result", v |-> PyDict(<<[k |-> "structuredContent", v |-> WholeMatch]>>)], [k |-> "structuredContent", v |-> BareMatch], [k |-> "match_id", v |-> PyInt(1)], [k |-> "players", v |-> PyList(<<>>)]>>),
     PyDict(<<[k |-> "result", v |-> PyDict(<<[k |-> "content", v |-> PyList(<<>>)]>>)], [k |-> "structuredContent", v |-> BareMatch]>>),
     PyDict(<<[k |-> "result", v |-> PyDict(<<>>)], [k |-> "match_id", v |-> PyInt(9)], [k |-> "players", v |-> PyList(<<PlayerB>>)], [k |-> "duration", v |-> PyInt(5)]>>),
     PyDict(<<[k |-> "structuredContent", v |-> WholeMatch], [k |-> "match_id", v |-> PyInt(9)], [k |-> "players", v |-> PyList(<<>>)]>>),
     PyDict(<<[k |-> "result", v |-> PyNone], [k |-> "structuredContent", v |-> BareMatch]>>),
     PyDict(<<[k |-> "result", v |-> PyInt(5)], [k |-> "match_id", v |-> PyInt(9)], [k |-> "players", v |-> PyList(<<>>)]>>),
     PyDict(<<[k |-> "result", v |-> PyStr(<<"o", "k">>)], [k |-> "match_id", v |-> PyInt(9)], [k |-> "players", v |-> PyList(<<>>)]>>),
     PyDict(<<[k |-> "result", v |-> PyStr(<<"h", "a", "s", " ", "s", "t", "r", "u", "c", "t", "u", "r", "e", "d", "C", "o", "n", "t", "e", "n", "t">>)], [k |-> "structuredContent", v |-> BareMatch]>>),
     PyDict(<<[k |-> "result", v |-> PyList(<<PyStr(<<"s", "t", "r", "u", "c", "t", "u", "r", "e", "d", "C", "o", "n", "t", "e", "n", "t">>)>>)], [k |-> "structuredContent", v |-> BareMatch]>>),
     PyDict(<<[k |-> "result", v |-> PyList(<<>>)], [k |-> "structuredContent", v |-> BareMatch]>>),
     PyDict(<<[k |-> "result", v |-> PyNone]>>),
     PyDict(<<[k |-> "structuredContent", v |-> PyInt(5)]>>),
     PyDict(<<[k |-> "structuredContent", v |-> PyList(<<BareMatch>>)]>>),
     PyDict(<<[k |-> "result", v |-> PyDict(<<[k |-> "structuredContent", v |-> PyNone]>>)], [k |-> "structuredContent", v |-> BareMatch]>>),
     PyDict(<<[k |-> "match_id", v |-> PyInt(9)]>>),
     PyDict(<<[k |-> "players", v |-> PyList(<<>>)]>>),
     PyDict(<<[k |-> "error", v |-> PyStr(<<"N", "o", "t", " ", "F", "o", "u", "n", "d">>)]>>),
     PyDict(<<>>),
     PyList(<<>>),
     PyNone
    }

CallExtractMatchSections(t) ==
    /\ pc[t] = "idle"
    /\ lifespan.phase = "serving"
    /\ calls < MaxToolCalls
    /\ calls' = calls + 1
    /\ \E data \in ExtractInputs :
         ToolStep(t, NewToolCall("extract_match_sections", [data |-> data], "resolve", PyNone),
                  NoValue)
    /\ UNCHANGED <<clock, everCleaned, PLAYER_CACHE, refVars>>

PlayerInputs == {PlayerA, PlayerB, PlayerC, PyDict(<<>>)}

CallProcessPlayerItems(t) ==
    /\ pc[t] = "idle"
    /\ lifespan.phase = "serving"
    /\ calls < MaxToolCalls
    /\ calls' = calls + 1
    /\ \E player \in PlayerInputs :
         ToolStep(t, NewToolCall("process_player_items", [player |-> player], "resolve", PyNone),
                  NoValue)
    /\ UNCHANGED <<clock, everCleaned, PLAYER_CACHE, refVars>>

MatchIds == {PyInt(7)}

CallGetMatchDetails(t) ==
    /\ pc[t] = "idle"
    /\ lifespan.phase = "serving"
    /\ calls < MaxToolCalls
    /\ calls' = calls + 1
    /\ \E match_id \in MatchIds :
         ToolStep(t, NewToolCall("get_match_details", [match_id |-> match_id], "fetch", PyNone),
                  NoValue)
    /\ UNCHANGED <<clock, everCleaned, PLAYER_CACHE, refVars>>

\* one call at a time; a match of several players whose heroes are not
\* loaded asks for the hero list once per player and may wait in acquire()
NextMatch ==
    \/ LoadReferenceData
    \/ \E t \in ToolTasks : CallExtractMatchSections(t)
    \/ \E t \in ToolTasks : CallProcessPlayerItems(t)
    \/ \E t \in ToolTasks : CallGetMatchDetails(t)
    \/ \E t \in ToolTasks : ToolResume(t)
    \/ \E t \in ToolTasks : FetchGet(t)
    \/ \E t \in ToolTasks : FetchReply(t)
    \/ \E t \in ToolTasks : Collect(t)
    \/ \E t \in ToolTasks : Wake(t)
    \/ Tick

SpecMatch == Init /\ [][NextMatch]_vars

\* ---------------------------------------------------------------- claims


\* admissions up to the i-th whose timestamp lies in the 60 seconds ending at it
InWindowOf(i) ==
    {j \in 1..i : admitted[i].time - admitted[j].time < Window}

\* admissions whose timestamp lies in the 60 seconds ending now
InWindowNow == {j \in DOMAIN admitted : clock - admitted[j].time < Window}

\* C1: whatever the number of tasks calling acquire() concurrently, at every
\* instant the number of admissions within the trailing 60 seconds is at most
\* requests_per_minute (at the instant of each admission, and now).
C1_WindowAtMostCapacity ==
    /\ \A i \in DOMAIN admitted : Cardinality(InWindowOf(i)) <= requests_per_minute
    /\ Cardinality(InWindowNow) <= requests_per_minute

\* a slept admission has just filled the window again while another task queues
C1_Witness ==
    /\ Len(admitted) > requests_per_minute
    /\ admitted[Len(admitted)].slept
    /\ Cardinality(InWindowNow) = requests_per_minute
    /\ \E t \in Tasks : pc[t] = "acq_wait"

\* C2: after any acquire() has returned the stored sequence holds at most
\* requests_per_minute timestamps, and the sequence an admission check looks
\* at holds no entry older than 60 seconds.
C2_LengthAndPurged ==
    /\ Len(requests) <= requests_per_minute
    /\ \A k \in DOMAIN lastCheck : lastCheck[k] <= Window

\* a check that found the window full after entries had been purged, and an
\* admission after a sleep that leaves the sequence full
C2_Witness ==
    /\ Len(lastCheck) = requests_per_minute
    /\ Len(admitted) > requests_per_minute + 1
    /\ admitted[Len(admitted)].slept
    /\ Len(requests) = requests_per_minute

\* C3: on a fresh limiter the first requests_per_minute admissions neither
\* queue nor sleep, and the next one is stamped no earlier than 60 seconds
\* after the first admission's timestamp.
C3_FirstFreeNextDelayed ==
    /\ \A i \in DOMAIN admitted :
          i <= requests_per_minute =>
              ~admitted[i].slept /\ ~admitted[i].queued
    /\ Len(admitted) > requests_per_minute =>
          admitted[requests_per_minute + 1].time >= admitted[1].time + Window

\* the call after the first requests_per_minute was issued at once and slept
C3_Witness ==
    /\ Len(admitted) > requests_per_minute
    /\ admitted[requests_per_minute + 1].slept
    /\ admitted[requests_per_minute + 1].time = admitted[1].time + Window

\* C4: acquire() never raises, and under fair scheduling with time advancing
\* every call that has not returned yet eventually returns.
C4_AcquireReturns ==
    /\ [](\A t \in Tasks : pc[t] # "raised")
    /\ \A t \in Tasks : InAcquire(t) ~> (pc[t] = "idle")

\* a caller is queued on the lock behind one that sleeps out the window
C4_Witness ==
    /\ waiters # <<>>
    /\ Sleeping # {}
    /\ Len(admitted) = requests_per_minute

\* ---- the API layer

Done(t) == pc[t] = "done"

\* t is inside the acquire() that its fetch_api awaits
InFetchAcquire(t) == InAcquire(t) /\ ret[t] # <<>> /\ Head(ret[t]) = "fetch_get"

\* C5: each fetch_api call obtains the shared client, then completes exactly
\* one acquire(), then issues exactly one GET with that client: nothing is
\* sent before the admission, and a failed GET (status or transport error)
\* reaches the caller as that exception after one GET and one acquire().
C5_FetchOneAcquireOneGet ==
    \A t \in Tasks :
      /\ InFetchAcquire(t) =>
           /\ cur[t].client \in 1..nClients
           /\ AcqCount(t, cur[t].fAdm) = 0
           /\ Len(cur[t].sent) = cur[t].fSent
      /\ pc[t] = "fetch_get" =>
           /\ AcqCount(t, cur[t].fAdm) = 1
           /\ Len(cur[t].sent) = cur[t].fSent
      /\ pc[t] = "fetch_http" =>
           /\ AcqCount(t, cur[t].fAdm) = 1
           /\ Len(cur[t].sent) = cur[t].fSent + 1
           /\ cur[t].sent[Len(cur[t].sent)].client = cur[t].client
           /\ cur[t].sent[Len(cur[t].sent)].url = <<OPENDOTA_BASE_URL, cur[t].req.endpoint>>
      /\ Done(t) =>
           \A k \in DOMAIN cur[t].flog :
               cur[t].flog[k].acq = 1 /\ cur[t].flog[k].gets = 1
      /\ Done(t) /\ cur[t].op = "fetch_api" =>
           /\ Len(cur[t].flog) = 1
           /\ cur[t].acq = 1
           /\ Len(cur[t].sent) = 1
           /\ cur[t].flog[1].end = "ok" => cur[t].kind = "ok"
           /\ cur[t].flog[1].end = "status_error" =>
                cur[t].kind = "raised" /\ cur[t].val.cls = "HTTPStatusError"
           /\ cur[t].flog[1].end = "transport_error" =>
                cur[t].kind = "raised" /\ cur[t].val.cls = "RequestError"

\* a fetch_api that slept out the window in acquire() ended in an HTTP status
\* error
C5_Witness ==
    \E t \in Tasks :
      /\ Done(t) /\ cur[t].op = "fetch_api"
      /\ cur[t].kind = "raised" /\ cur[t].val.cls = "HTTPStatusError"
      /\ Len(admitted) > requests_per_minute
      /\ admitted[Len(admitted)].task = t /\ admitted[Len(admitted)].slept

\* C7: before shutdown at most one client object is ever constructed, and
\* every caller of get_http_client / fetch_api holds that one client,
\* whatever the interleaving.
C7_OneClientBeforeShutdown ==
    ~everCleaned =>
      /\ nClients <= 1
      /\ \A t \in Tasks :
           cur[t] # NoCall => cur[t].client \in {NoClient, http_client}

\* two first callers are in flight together with the same client
C7_Witness ==
    /\ ~everCleaned
    /\ calls = 2
    /\ nClients = 1
    /\ \E t1, t2 \in Tasks :
         /\ t1 # t2
         /\ pc[t1] = "fetch_http" /\ pc[t2] = "fetch_http"
         /\ cur[t1].client = 1 /\ cur[t2].client = 1

\* C8: a constructed client is torn down exactly once: aclose() is invoked
\* at most once on it for any interleaving of cleanup_http_client calls, and
\* once a cleanup call that found it has returned, exactly once.
C8_TornDownExactlyOnce ==
    /\ \A c \in DOMAIN acloseCalls : acloseCalls[c] <= 1
    /\ \A t \in Tasks :
         (Done(t) /\ cur[t].op = "cleanup_http_client" /\ cur[t].client # NoClient)
            => acloseCalls[cur[t].client] = 1

\* C9 at the end of a get_account_id call: a cache hit took no admission and
\* sent nothing; a miss took exactly one admission and sent exactly one
\* search; a miss that succeeded returns str() of the first result's
\* account_id; a search without results ends in the not-found ValueError.
C9_AtReturn ==
    \A t \in Tasks :
      (Done(t) /\ cur[t].op = "get_account_id") =>
        /\ cur[t].hit =>
             /\ cur[t].acq = 0 /\ cur[t].sent = <<>>
             /\ cur[t].kind = "ok" /\ cur[t].val.t = "str"
        /\ ~cur[t].hit =>
             /\ cur[t].acq = 1 /\ Len(cur[t].sent) = 1
             /\ cur[t].sent[1].url = <<OPENDOTA_BASE_URL, "/search?q=", cur[t].args>>
        /\ (~cur[t].hit /\ cur[t].kind = "ok") =>
             /\ cur[t].search_results.v # <<>>
             /\ cur[t].val = PyStr(DecStr(cur[t].search_results.v[1].account_id))
        /\ (~cur[t].hit /\ cur[t].search_results = PyList(<<>>)) =>
             /\ cur[t].kind = "raised"
             /\ cur[t].val.cls = "ValueError"
             /\ cur[t].val.msg.k = "No players found"

\* C9 at the steps of a get_account_id call: it is a hit exactly when the
\* lowercased nickname is a key of the cache, and then returns the cached
\* string at once; the step that finds no search result leaves the cache as
\* it was.
C9_AtStep ==
    \A t \in Tasks :
      /\ (pc[t] = "idle" /\ pc'[t] # "idle" /\ cur'[t].op = "get_account_id") =>
           /\ StrLower(cur'[t].args) \in DOMAIN PLAYER_CACHE =>
                /\ Done(t)' /\ cur'[t].hit
                /\ cur'[t].val = PyStr(PLAYER_CACHE[StrLower(cur'[t].args)])
                /\ admitted' = admitted
           /\ StrLower(cur'[t].args) \notin DOMAIN PLAYER_CACHE =>
                ~cur'[t].hit
           /\ cur'[t].args = <<"X", "i", "n", "o", "b", "i", "l", "l", "i", "e">> =>
                /\ Done(t)'
                /\ cur'[t].val = PyStr(<<"3", "6", "8", "7", "2", "2", "5", "1">>)
      /\ (pc[t] = "acct_http" /\ Done(t)' /\ cur'[t].search_results = PyList(<<>>)) =>
           PLAYER_CACHE' = PLAYER_CACHE

\* C9: get_account_id takes no admission and sends no request on a cache
\* hit (the key is the lowercased nickname); on a miss it performs exactly one
\* rate-limited search and returns the first result's account id as a
\* string; a search without results fails with the not-found error and leaves
\* the cache unchanged.
C9_GetAccountId == []C9_AtReturn /\ [][C9_AtStep]_vars

\* one caller was answered from an entry that an earlier miss wrote, while
\* another's search for the same nickname had come back empty
C9_Witness ==
    \E t1, t2 \in Tasks :
      /\ Done(t1) /\ cur[t1].op = "get_account_id" /\ cur[t1].args = <<"g", "h", "o", "s", "t">>
      /\ cur[t1].hit /\ cur[t1].val = PyStr(DecStr(4321))
      /\ Done(t2) /\ cur[t2].op = "get_account_id" /\ ~cur[t2].hit
      /\ cur[t2].kind = "raised" /\ cur[t2].val.cls = "ValueError"

\* ---- the tools

ToolOps == {"get_player_win_loss", "get_hero_matchups", "get_hero_id_by_name"}

\* C6: every tool call ends in a returned value, a success payload or an
\* object with an "error" entry, whatever its resolvers and upstream calls
\* end in; no exception leaves a tool.
C6_ToolsNeverRaise ==
    \A t \in Tasks :
      (Done(t) /\ cur[t].op \in ToolOps) =>
         /\ cur[t].kind \in {"ok", "error"}
         /\ cur[t].kind = "error" => "error" \in DOMAIN cur[t].val

\* the nickname is cached, the hero filter is a name the loaded catalog
\* resolves, the lane filter is a string of the lane table
C10_Given(a) ==
    /\ HeroesLocal
    /\ StrLower(a.player_name.v) \in DOMAIN InitialPlayerCache
    /\ a.hero_id.t = "str"
    /\ "ok" \in DOMAIN ResolveHeroWith(HeroesList, a.hero_id)
    /\ a.lane_role.t = "str"
    /\ StrStrip(StrLower(a.lane_role.v)) \in LaneKeys

\* the filters that were supplied
C10_Supplied(a) == {k \in DOMAIN a \ {"player_name"} : a[k] # PyNone}

\* one admission, one upstream call to the player's wl endpoint, with the
\* numeric hero_id and lane_role and exactly the filters supplied
C10_OneCall(r) ==
    /\ r.acq = 1
    /\ Len(r.sent) = 1
    /\ r.sent[1].url[2].path = "/players/{}/wl"
    /\ r.sent[1].url[2].id = InitialPlayerCache[StrLower(r.args.player_name.v)]
    /\ DOMAIN r.sent[1].params.v = C10_Supplied(r.args)
    /\ r.sent[1].params.v["hero_id"].t = "int"
    /\ r.sent[1].params.v["lane_role"].t = "int"
    /\ \A k \in {"limit", "offset"} \cap C10_Supplied(r.args) :
         r.sent[1].params.v[k] = r.args[k]

\* the win/loss object with its win_rate string
C10_WinLoss(r) ==
    /\ r.kind = "ok"
    /\ DOMAIN r.val = {"win", "lose", "win_rate"}
    /\ r.val.win_rate \in {<<"7", "5", ".", "0", "0">>, <<"0", ".", "0">>}

C10_OthersResolveLocally(a) ==
    /\ \A k \in {"included_account_id", "excluded_account_id"} :
         a[k] # PyNone =>
           \A i \in DOMAIN AccountItems(a[k]) :
              \/ AccountItems(a[k])[i].t = "int"
              \/ StrLower(AccountItems(a[k])[i].v) \in DOMAIN InitialPlayerCache
    /\ \A k \in {"with_hero_id", "against_hero_id"} :
         a[k] # PyNone =>
           \A i \in (IF a[k].t = "list" THEN DOMAIN a[k].v ELSE {1}) :
              \/ HeroGiven(a[k], i).t = "int"
              \/ "ok" \in DOMAIN ResolveHeroWith(HeroesList, HeroGiven(a[k], i))

C11_Sims(heroes, n) ==
    [i \in DOMAIN heroes |-> _similarity(n, _normalize_name(heroes[i].localized_name))]

\* the heroes a suggestion may name, and the score a suggested name has
C11_Suggestible(heroes, n, name) ==
    \E i \in DOMAIN heroes :
       /\ heroes[i].localized_name = name
       /\ SimAtLeast(C11_Sims(heroes, n)[i], 5)

C11_Descending(n, names) ==
    \A k, l \in DOMAIN names :
       k < l => SimGE(_similarity(n, _normalize_name(names[k])),
                      _similarity(n, _normalize_name(names[l])))

\* what the matcher must hand back for the name n and a list of well-formed
\* heroes
C11_Right(heroes, n, sims, v) ==
    LET exact == {i \in DOMAIN heroes : _normalize_name(heroes[i].localized_name) = n}
        good == {i \in DOMAIN heroes : SimAtLeast(sims[i], 8)}
        best == {i \in good : \A j \in good : SimGE(sims[i], sims[j])}
    IN IF exact # {}
       THEN /\ "match_type" \in DOMAIN v /\ v.match_type = "exact"
            /\ \E i \in exact : v.hero_id = heroes[i].id
       ELSE IF good # {}
       THEN /\ "match_type" \in DOMAIN v /\ v.match_type = "fuzzy"
            /\ v.hero_id = heroes[MinOf(best)].id
            /\ v.localized_name = heroes[MinOf(best)].localized_name
            /\ v.confidence = IF SimAtLeast(sims[MinOf(best)], 9) THEN "high" ELSE "medium"
            /\ v.confidence = "medium" =>
                 /\ Len(v.alternatives) <= 3
                 /\ \A k \in DOMAIN v.alternatives :
                      \E i \in good : heroes[i].localized_name = v.alternatives[k]
       ELSE /\ "error" \in DOMAIN v
            /\ Len(v.suggestions) <= 5
            /\ \A k \in DOMAIN v.suggestions : C11_Suggestible(heroes, n, v.suggestions[k])
            /\ C11_Descending(n, v.suggestions)

\* C11: without a normalised-exact match the hero matcher returns the
\* candidate of highest similarity among those scoring >= 0.8, the first of
\* the list among equals, tagged high from 0.9 on and medium below, with at
\* most 3 alternatives; with no candidate >= 0.8 it returns the not-found
\* error with at most 5 suggestions, each >= 0.5, in descending order; a
\* normalised-exact match wins over every fuzzy candidate.
C11_HeroMatcher ==
    \A t \in Tasks :
      (Done(t) /\ cur[t].op = "get_hero_id_by_name_logic"
        /\ \A i \in DOMAIN cur[t].args.heroes.v : HeroOk(cur[t].args.heroes.v[i])) =>
         /\ cur[t].kind = "ok"
         /\ C11_Right(cur[t].args.heroes.v, _normalize_name(cur[t].args.hero_name.v),
                      C11_Sims(cur[t].args.heroes.v, _normalize_name(cur[t].args.hero_name.v)),
                      cur[t].val)

\* "abcdxyz" is closest to the last hero of the list, at more than 0.9, and
\* close to the first one too
C11_Witness ==
    \E t \in Tasks :
      /\ Done(t) /\ cur[t].op = "get_hero_id_by_name_logic"
      /\ cur[t].args.heroes.v = NearHeroes
      /\ cur[t].args.hero_name.v = <<"a", "b", "c", "d", "x", "y", "z">>
      /\ cur[t].kind = "ok"
      /\ cur[t].val.hero_id = 19
      /\ cur[t].val.confidence = "high"

\* what is left of a name without its spaces, hyphens and apostrophes, in
\* lower case: two names that differ only in these have the same letters
C12_IsLetter(ch) == ch \notin {" ", "-", "'"}
C12_Letters(name) == StrLower(SelectSeq(name, C12_IsLetter))

\* the hero list a resolve_hero call that ends now has looked the name up in
C12_Catalog(t) ==
    IF HeroesLocal THEN DictValues(REFERENCE_DATA["heroes"]) ELSE cur[t].val.v

C12_SameAs(r, kind, val) ==
    IF kind = "ok" THEN "ok" \in DOMAIN r /\ r.ok = val ELSE "raise" \in DOMAIN r

C12_Step ==
    \A t \in Tasks :
      (pc[t] \in {"idle", "tool_resume"} /\ pc'[t] = "done"
        /\ cur'[t].op = "resolve_hero" /\ cur'[t].args.hero.t = "str") =>
         \A other \in HeroInputs :
            (other.t = "str" /\ C12_Letters(other.v) = C12_Letters(cur'[t].args.hero.v)) =>
               C12_SameAs(ResolveHeroWith(C12_Catalog(t), other), cur'[t].kind, cur'[t].val)

\* C12: resolve_hero gives the same hero id (or fails alike) for any two
\* names that differ only in letter case and in spaces, hyphens and
\* apostrophes, the hero list being the same.
C12_SameIdForVariants == [][C12_Step]_vars

\* "ANTI MAGE" resolved to the id of Anti-Mage
C12_Witness ==
    \E t \in Tasks :
      /\ Done(t) /\ cur[t].op = "resolve_hero"
      /\ cur[t].args.hero = PyStr(<<"A", "N", "T", "I", " ", "M", "A", "G", "E">>)
      /\ cur[t].kind = "ok"
      /\ cur[t].val = PyInt(1)

\* C13: resolve_hero hands None and every integer back as it is, whether or
\* not the integer is a hero id and whether or not the hero list is loaded,
\* without an upstream call and without an admission of the rate limiter.
C13_HeroPassThrough ==
    \A t \in Tasks :
      (Done(t) /\ cur[t].op = "resolve_hero" /\ cur[t].args.hero.t \in {"none", "int"}) =>
         /\ cur[t].kind = "ok"
         /\ cur[t].val = cur[t].args.hero
         /\ cur[t].acq = 0
         /\ cur[t].sent = <<>>
         /\ cur[t].flog = <<>>
         /\ cur[t].client = NoClient

\* 99999, the id of no hero, came back while the hero list was not loaded
C13_Witness ==
    \E t \in Tasks :
      /\ Done(t) /\ cur[t].op = "resolve_hero"
      /\ cur[t].args.hero = PyInt(99999)
      /\ cur[t].val = PyInt(99999)
      /\ ~HeroesLocal

\* the key resolve_lane looks a string up by
C18_Key(lane) == StrStrip(StrLower(lane.v))

C18_Raised(r) == r.kind = "raised" /\ r.val.cls = "ValueError"

C19_HardSupport ==
    {<<"h", "a", "r", "d", " ", "s", "u", "p", "p", "o", "r", "t">>,
     <<"h", "a", "r", "d", "s", "u", "p", "p", "o", "r", "t">>,
     <<"h", "a", "r", "d", " ", "s", "u", "p">>,
     <<"h", "a", "r", "d", "s", "u", "p">>,
     <<"p", "o", "s", " ", "5">>,
     <<"p", "o", "s", "i", "t", "i", "o", "n", " ", "5">>,
     <<"p", "o", "s", "5">>,
     <<"5">>}

C19_SoftSupport ==
    {<<"s", "o", "f", "t", " ", "s", "u", "p", "p", "o", "r", "t">>,
     <<"s", "o", "f", "t", "s", "u", "p", "p", "o", "r", "t">>,
     <<"s", "o", "f", "t", " ", "s", "u", "p">>,
     <<"s", "o", "f", "t", "s", "u", "p">>,
     <<"p", "o", "s", " ", "4">>,
     <<"p", "o", "s", "i", "t", "i", "o", "n", " ", "4">>,
     <<"p", "o", "s", "4">>,
     <<"4">>}

\* C19: every hard-support / position-5 phrasing resolves to role 1 and every
\* soft-support / position-4 phrasing to role 3.
C19_SupportRoles ==
    \A t \in Tasks :
      (Done(t) /\ cur[t].op = "resolve_lane" /\ cur[t].args.lane.t = "str") =>
         /\ C18_Key(cur[t].args.lane) \in C19_HardSupport =>
              cur[t].kind = "ok" /\ cur[t].val = PyInt(1)
         /\ C18_Key(cur[t].args.lane) \in C19_SoftSupport =>
              cur[t].kind = "ok" /\ cur[t].val = PyInt(3)

\* the internal name the alias table gives for an input, if an alias of it
\* has the input's letters
C14_AliasOf(item_input) ==
    {ITEM_NAME_CONVERSION[i][1] :
        i \in {j \in DOMAIN ITEM_NAME_CONVERSION :
                 \E k \in DOMAIN ITEM_NAME_CONVERSION[j][2] :
                    C12_Letters(ITEM_NAME_CONVERSION[j][2][k]) = C12_Letters(item_input)}}

\* C14: resolve_item_to_internal_name tries its layers in order (None passes,
\* then the alias table, then the catalog's slugs, display names and fuzzy
\* match) and returns what the first layer that hits gives: an input that
\* matches an alias is resolved by the alias table before the catalog is
\* looked at, and the call fails only when no layer hits.
C14_ItemLayersInOrder ==
    \A t \in Tasks :
      (Done(t) /\ cur[t].op = "resolve_item_to_internal_name") =>
         /\ cur[t].args.item_input = PyNone =>
              cur[t].kind = "ok" /\ cur[t].val = PyNone
         /\ (cur[t].args.item_input # PyNone
              /\ C14_AliasOf(cur[t].args.item_input.v) # {}) =>
              /\ cur[t].kind = "ok"
              /\ cur[t].val.v \in C14_AliasOf(cur[t].args.item_input.v)

\* C15: resolve_item_to_internal_name("bfury") returns "battle_fury".
C15_Bfury ==
    \A t \in Tasks :
      (Done(t) /\ cur[t].op = "resolve_item_to_internal_name"
        /\ cur[t].args.item_input = PyStr(<<"b", "f", "u", "r", "y">>)) =>
         /\ cur[t].kind = "ok"
         /\ cur[t].val = PyStr(<<"b", "a", "t", "t", "l", "e", "_", "f", "u", "r", "y">>)

\* ---- the reference data

\* C16: after load_reference_data has run with every file present, the
\* catalogs of heroes, items, hero lore and Aghanim's descriptions are all
\* populated.
C16_CatalogsPopulated ==
    (lifespan.phase = "serving" /\ \A f \in RefFiles : lifespan.files[f] = "ok") =>
       \A c \in {"heroes", "items", "hero_lore", "aghs_desc"} : REFERENCE_DATA[c] # <<>>

\* a category is the empty container or the container its file holds
C17_Containers ==
    /\ lifespan.phase # "failed"
    /\ \A c \in RefCategories \ RefFiles : REFERENCE_DATA[c] = <<>>
    /\ \A f \in RefFiles :
         /\ lifespan.files[f] \in {"unread", "missing", "unparsable"} => REFERENCE_DATA[f] = <<>>
         /\ lifespan.files[f] = "ok" => REFERENCE_DATA[f] = FileContent(f)

C17_NoMutation == lifespan.phase = "serving" => REFERENCE_DATA' = REFERENCE_DATA

\* C17: in every state every category of REFERENCE_DATA holds a container
\* (the empty one or its file's content, never None); a file that is missing
\* or does not parse leaves its category empty and startup does not fail;
\* once loaded, no operation changes a catalog.
C17_CatalogsAreContainers == []C17_Containers /\ [][C17_NoMutation]_vars

\* heroes.json did not parse, the other files did, the server serves and a
\* resolver has run on the empty hero catalog
C17_Witness ==
    /\ lifespan.phase = "serving"
    /\ lifespan.files["heroes"] = "unparsable"
    /\ REFERENCE_DATA["heroes"] = <<>>
    /\ REFERENCE_DATA["hero_lore"] # <<>>
    /\ \E t \in Tasks : Done(t) /\ cur[t].op = "resolve_hero" /\ cur[t].kind = "ok"
                          /\ cur[t].args.hero.t = "str"

\* ---- resolve_stat_field

\* the synonyms closest to a normalised field among those at the cutoff
C20_Closest(n) ==
    {k \in StatKeys :
        /\ SimAtLeast(_similarity(k, n), SIMILARITY_THRESHOLD_STAT_FIELD)
        /\ \A j \in StatKeys : SimGE(_similarity(k, n), _similarity(j, n))}

\* the synonyms the first layer that hits offers for a normalised field
C20_FirstHit(n) ==
    IF StrReplace(n, " ", "_") \in StatKeys THEN {StrReplace(n, " ", "_")}
    ELSE IF StrRemove(n, " ") \in StatKeys THEN {StrRemove(n, " ")}
    ELSE IF n \in StatKeys THEN {n}
    ELSE C20_Closest(n)

C20_Empty(field) == field = PyNone \/ field.v = <<>>

C20_Canonical == {VALID_STAT_FIELDS[i][2] : i \in DOMAIN VALID_STAT_FIELDS}

C20_Right(field, kind, val) ==
    IF C20_Empty(field)
    THEN kind = "raised" /\ val = Exc("ValueError", Msg("Field cannot be empty", <<>>))
    ELSE IF C20_FirstHit(StatNormalize(field.v)) = {}
    THEN kind = "raised" /\ val.cls = "ValueError"
    ELSE /\ kind = "ok"
         /\ \E k \in C20_FirstHit(StatNormalize(field.v)) : val = PyStr(StatOf(k))
         /\ val.v \in C20_Canonical

C21_Places(data) ==
    IF data.t # "dict" THEN <<>>
    ELSE (IF JHas(data, "result") /\ JGet(data, "result").t = "dict"
             /\ JHas(JGet(data, "result"), "structuredContent")
          THEN <<JGet(JGet(data, "result"), "structuredContent")>> ELSE <<>>)
         \o (IF JHas(data, "structuredContent")
             THEN <<JGet(data, "structuredContent")>> ELSE <<>>)
         \o (IF JHas(data, "match_id") /\ JHas(data, "players") THEN <<data>> ELSE <<>>)

\* C21: extract_match_sections takes the match from result.structuredContent,
\* else from the top-level structuredContent, else the input itself when it
\* has match_id and players: when none of the three is there the call fails
\* and returns no sections, and when one is there and holds an object the
\* sections returned are those of the first.
C21_LocatesInOrder ==
    \A t \in Tasks :
      (Done(t) /\ cur[t].op = "extract_match_sections") =>
         /\ C21_Places(cur[t].args.data) = <<>> => cur[t].kind = "raised"
         /\ (C21_Places(cur[t].args.data) # <<>>
              /\ C21_Places(cur[t].args.data)[1].t = "dict") =>
              /\ cur[t].kind = "ok"
              /\ cur[t].val = SectionsOf(C21_Places(cur[t].args.data)[1]).ok

\* C22: the metadata section holds exactly the top-level fields of the match
\* whose values are neither a list nor a dict.
C22_MetadataScalarsOnly ==
    \A t \in Tasks :
      (Done(t) /\ cur[t].op = "extract_match_sections" /\ cur[t].kind = "ok") =>
         LET match == C21_Places(cur[t].args.data)[1]
             metadata == JGet(cur[t].val, "metadata")
         IN \A i \in DOMAIN match.v :
              JHas(metadata, match.v[i].k) <=> match.v[i].v.t \notin {"list", "dict"}


\* the purchases of a log that count against a catalog: a name, a time, a
\* cost of 2000 or more there, a time that is not negative
C23_Costly(items, purchase_log) ==
    SelectSeq(purchase_log,
              LAMBDA purchase :
                 /\ Truthy(JGetOr(purchase, "key", PyNone))
                 /\ JGetOr(purchase, "time", PyNone) # PyNone
                 /\ ItemCostIn(items, JGet(purchase, "key").v) >= 2000
                 /\ JGet(purchase, "time").v >= 0)

\* timings lists exactly the purchases of kept, ordered by purchase time
C23_TimeOrdered(kept, timings) ==
    /\ Len(timings) = Len(kept)
    /\ \E f \in Permutations(DOMAIN kept) :
          /\ \A i \in DOMAIN kept : timings[i] = KeyTiming(kept[f[i]])
          /\ \A i, j \in DOMAIN kept :
                i < j => JGet(kept[f[i]], "time").v <= JGet(kept[f[j]], "time").v

\* C23: with the catalogs' files all there, the key_timings of every
\* process_player_items call that returns are exactly the purchases of the
\* log that cost 2000 or more in the items catalog and were made at a time
\* of 0 or later, in the order of their purchase times.
C23_KeyTimings ==
    \A t \in Tasks :
      (/\ Done(t) /\ cur[t].op = "process_player_items" /\ cur[t].kind = "ok"
       /\ \A f \in RefFiles : lifespan.files[f] = "ok") =>
         C23_TimeOrdered(C23_Costly(ItemsFile,
                                    JGetOr(cur[t].args.player, "purchase_log", PyList(<<>>)).v),
                         cur[t].val.key_timings)


\* ----------------------------------------------------- get_match_details

\* the response a finished get_match_details call was answered with
C24_Response(t) == cur[t].flog[1].body

\* C24: a get_match_details call whose response has one of the keys
\* teamfights, objectives, radiant_gold_adv returns an object with
\* parsed = True whose players_summary.count is the length of the
\* response's players list.
C24_ParsedSummary ==
    \A t \in Tasks :
      (/\ Done(t) /\ cur[t].op = "get_match_details"
       /\ cur[t].flog # <<>> /\ cur[t].flog[1].end = "ok"
       /\ is_parsed(C24_Response(t))
       /\ JGetOr(C24_Response(t), "players", PyNone).t = "list") =>
         /\ cur[t].kind = "ok"
         /\ "parsed" \in DOMAIN cur[t].val
         /\ cur[t].val.parsed = TRUE
         /\ cur[t].val.players_summary.count = Len(JGet(C24_Response(t), "players").v)


\* --------------------------------------- the rate limiter under contention

\* the sleeper of asyncio.sleep(wait_time) is outside the critical section
C25_SleeperHoldsNoLock ==
    \A t \in Tasks : pc[t] \in SleepLabels => lockHolder # t

C25_SleeperHoldsLock ==
    \A t \in Tasks : pc[t] \in SleepLabels => lockHolder = t

C25_NoCheckDuringSleep ==
    \A t \in Tasks :
      (pc[t] \in SleepLabels /\ pc'[t] \in SleepLabels) =>
        /\ requests' = requests
        /\ lastCheck' = lastCheck
        /\ admitted' = admitted
        /\ \A u \in Tasks \ {t} : pc'[u] # pc[u] => pc'[u] = "acq_wait"

\* C25: while a caller of acquire() is suspended in the rate-limit wait it
\* holds the critical section: a task that enters acquire() during the wait
\* queues for the lock, and nobody purges or checks the window before the
\* sleeper has woken.
C25_SleepInsideCriticalSection ==
    []C25_SleeperHoldsLock /\ [][C25_NoCheckDuringSleep]_vars

C25_Witness ==
    \E t, u \in Tasks :
      /\ pc[t] \in SleepLabels /\ wakeAt[t] > clock
      /\ pc[u] = "acq_wait" /\ u \in {waiters[k] : k \in DOMAIN waiters}


\* a cancelled caller is out of the lock and out of its queue
C26_CancelledHoldsNothing ==
    \A t \in Tasks :
      pc[t] = "cancelled" => lockHolder # t /\ \A k \in DOMAIN waiters : waiters[k] # t

\* the step that cancels t adds nothing to the timestamps, drops none of
\* them and admits nobody
C26_CancelAddsNothing ==
    \A t \in Tasks :
      (InAcquire(t) /\ pc'[t] = "cancelled") =>
        /\ requests' = requests
        /\ admitted' = admitted
        /\ lockHolder' # t

\* C26: when a task suspended inside acquire() (queued for the lock or in
\* the rate-limit sleep) is cancelled, the lock is released, the timestamp
\* sequence gains no entry for it and keeps its other entries, and every
\* other caller inside acquire() is still admitted.
C26_CancellationIsSafe ==
    /\ []C26_CancelledHoldsNothing
    /\ [][C26_CancelAddsNothing]_vars
    /\ \A u \in Tasks : InAcquire(u) ~> (pc[u] \in {"idle", "cancelled"})

\* a sleeper was cancelled while another caller queued behind it, and that
\* caller has been given the lock
C26_Witness ==
    \E t, u \in Tasks :
      /\ pc[t] = "cancelled"
      /\ pc[u] = "acq_wait" /\ lockHolder = u
      /\ Len(requests) = requests_per_minute


\* the callers that have reached the critical section and are not admitted
\* yet, in the order in which they reached it: the holder of the lock, then
\* the lock's queue
C27_Pending ==
    (IF lockHolder = NoTask THEN <<>> ELSE <<lockHolder>>) \o waiters

\* the task of the admission a step appends
C27_Admittee == admitted'[Len(admitted')].task

C27_FifoStep ==
    /\ \* an arrival goes to the end, an admission takes the head
       \/ C27_Pending' = C27_Pending
       \/ \E t \in Tasks : pc[t] = "idle" /\ C27_Pending' = Append(C27_Pending, t)
       \/ C27_Pending # <<>> /\ C27_Pending' = Tail(C27_Pending)
    /\ admitted' # admitted =>
         /\ Len(admitted') = Len(admitted) + 1
         /\ IF C27_Pending = <<>>
            THEN pc[C27_Admittee] = "idle" /\ C27_Pending' = <<>>
            ELSE C27_Admittee = Head(C27_Pending) /\ C27_Pending' = Tail(C27_Pending)

C28_CacheAppendOnly ==
    [][\A name \in DOMAIN PLAYER_CACHE :
          /\ name \in DOMAIN PLAYER_CACHE'
          /\ PLAYER_CACHE'[name] = PLAYER_CACHE[name]]_vars


\* --------------------------------------------------------- the player tools

C29_PlayerTools == {"get_player_win_loss", "get_player_histograms"}

\* the statistics endpoints of the player tools
C29_StatsPaths == {"/players/{}/wl", "/players/{}/histograms/{}"}

\* a request of r went to one of them (a search's url has three parts, a
\* fetch_api's two)
C29_StatsSent(r) ==
    \E i \in DOMAIN r.sent :
       Len(r.sent[i].url) = 2 /\ r.sent[i].url[2].path \in C29_StatsPaths

\* a hero name that neither heroes.json nor GET /heroes knows
C29_UnknownHero(hero) ==
    /\ hero.t = "str"
    /\ "raise" \in DOMAIN ResolveHeroWith(HeroesList, hero)
    /\ "raise" \in DOMAIN ResolveHeroWith(DictValues(HeroesFile), hero)

\* a filter of the call does not resolve: an unknown lane name or a lane
\* integer outside 1..4, an unknown hero name, an unknown stat field
C29_FilterFails(a) ==
    \/ "raise" \in DOMAIN resolve_lane(a.lane_role)
    \/ \E k \in {"hero_id", "with_hero_id", "against_hero_id"} :
         /\ a[k] # PyNone
         /\ \E i \in (IF a[k].t = "list" THEN DOMAIN a[k].v ELSE {1}) :
               C29_UnknownHero(HeroGiven(a[k], i))
    \/ "field" \in DOMAIN a /\ "raise" \in DOMAIN resolve_stat_field(a.field)

C29_PlayerCached(a) == StrLower(a.player_name.v) \in DOMAIN InitialPlayerCache

\* every teammate filter is an integer or a cached nickname
C29_TeammatesCached(a) ==
    \A k \in {"included_account_id", "excluded_account_id"} :
       a[k] # PyNone =>
         \A i \in DOMAIN AccountItems(a[k]) :
            \/ AccountItems(a[k])[i].t = "int"
            \/ StrLower(AccountItems(a[k])[i].v) \in DOMAIN InitialPlayerCache

\* the statistics request goes out only at the fetch stage, and a call with
\* a filter that does not resolve ends in an error object without it
C29_ResolveFirst ==
    \A t \in Tasks :
      cur[t].op \in C29_PlayerTools =>
        /\ (~Done(t) /\ C29_StatsSent(cur[t])) => cur[t].loc.stage = "fetch"
        /\ (Done(t) /\ C29_FilterFails(cur[t].args)) =>
              /\ cur[t].kind = "error"
              /\ ~C29_StatsSent(cur[t])

\* the claim as first stated: with the player's nickname cached and the
\* hero catalog loaded, a call with a failing filter takes no admission
C29_AsStated ==
    /\ C29_ResolveFirst
    /\ \A t \in Tasks :
         (/\ cur[t].op \in C29_PlayerTools /\ Done(t) /\ C29_FilterFails(cur[t].args)
          /\ C29_PlayerCached(cur[t].args) /\ HeroesLocal) =>
            cur[t].acq = 0

\* C29: in every player tool all filter resolution finishes before the
\* statistics fetch: when a filter fails to resolve the tool returns an error
\* object and sends no statistics request, and with the player's and every
\* teammate's nickname cached and the hero catalog loaded the call takes no
\* admission, so the rate limiter's timestamps are left as they were.
C29_FiltersBeforeFetch ==
    /\ C29_ResolveFirst
    /\ \A t \in Tasks :
         (/\ cur[t].op \in C29_PlayerTools /\ Done(t) /\ C29_FilterFails(cur[t].args)
          /\ C29_PlayerCached(cur[t].args) /\ C29_TeammatesCached(cur[t].args)
          /\ HeroesLocal) =>
            cur[t].acq = 0 /\ cur[t].sent = <<>>

\* get_player_histograms was asked for a field nobody knows, with the
\* nickname cached and the catalog loaded, and came back with the error
C29_Witness ==
    \E t \in Tasks :
      /\ Done(t) /\ cur[t].op = "get_player_histograms"
      /\ "raise" \in DOMAIN resolve_stat_field(cur[t].args.field)
      /\ cur[t].args.field.v # <<>>
      /\ C29_PlayerCached(cur[t].args) /\ HeroesLocal
      /\ cur[t].kind = "error"
      /\ cur[t].acq = 0


\* ----------------------------------------------- the order of the timestamps

\* self.requests is in non-decreasing order and holds no time yet to come
C30_Sorted ==
    /\ \A i, j \in DOMAIN requests : i < j => requests[i] <= requests[j]
    /\ \A i \in DOMAIN requests : requests[i] <= clock

\* at any moment: if the window purged now is full, the wait computed from
\* its first element is positive
C30_WaitPositive ==
    Len(Purge(requests, clock)) >= requests_per_minute =>
       WaitTime(clock, Purge(requests, clock)[1]) > 0

\* a caller admitted without a sleep had found the window not full, and a
\* caller that starts to sleep sleeps for a positive time
C30_FullMeansSleep ==
    /\ (admitted' # admitted /\ ~admitted'[Len(admitted')].slept) =>
          Len(lastCheck') < requests_per_minute
    /\ \A t \in Tasks :
          (pc[t] \notin SleepLabels /\ pc'[t] \in SleepLabels) =>
             /\ Len(lastCheck') >= requests_per_minute
             /\ wakeAt'[t] > clock'
             /\ wakeAt'[t] = requests'[1] + Window

\* C30: the timestamp sequence is always in non-decreasing order, so its
\* first element is the oldest admission kept, and whenever the purged window
\* is full the wait computed from it is strictly positive: the caller sleeps.
C30_SortedAndPositiveWait ==
    [](C30_Sorted /\ C30_WaitPositive) /\ [][C30_FullMeansSleep]_vars

\* a caller sleeps on a full window whose timestamps differ
C30_Witness ==
    \E t \in Tasks :
      /\ pc[t] \in SleepLabels
      /\ Len(requests) >= requests_per_minute
      /\ requests[1] < requests[Len(requests)]
      /\ wakeAt[t] > clock

=============================================================================
